---- MODULE Spec2Model ----
(***************************************************************************)
(* Relay of the collaborative canvas (server/src/index.ts, latest revision *)
(* in src/unnamed/part_002 lines 116-501): per-room membership, the        *)
(* capacity gate, the in-memory object list and the broadcast rules.       *)
(*                                                                         *)
(* The relay runs on one event loop: every socket.on handler runs to       *)
(* completion, so each handler is one atomic action.                       *)
(***************************************************************************)
EXTENDS Integers, Sequences, FiniteSets, TLC

(* ---------------------------------------------------------------- bounds *)
\* open connections at start of the general relay specification
NConns == 3
\* open connections in the capacity specification
NCapConns == 11
\* disconnects explored in the capacity specification
MaxCapDisconnects == 1
\* mutation messages recorded in the snapshot-fold specification
MaxOps == 3
\* the connections of the snapshot-fold specification: a sender and a joiner
FoldSockets == {1, 2}
\* clients (browser tabs) of the client specifications
NClients == 2
\* entries on a tab's undo stack
MaxHistory == 2
\* messages of one tab that the relay has not handled yet
MaxInFlight == 1
\* calls of throttled senders in the throttle specification
MaxCalls == 3
\* the clock of the throttle specification stops at FirstNow + MaxElapsed
MaxElapsed == 50
\* bytes per chunk in the asset specification (the upload task uses 64 KiB)
ChunkSize == 2
\* blobs of up to this many chunks are delivered in every order
MaxAnyK == 3
\* the clock of the editing specification stops at FirstNow + MaxEditElapsed
MaxEditElapsed == 200

(* ------------------------------------------------------- program constants *)
MAX_USERS_PER_SESSION == 10
\* setTimeout(() => { isLocalActionRef.current = false; }, 100)
ECHO_TIMEOUT == 100
\* if (now - lastCursorUpdateRef.current < 50) return;
THROTTLE == 50

(* ------------------------------------------------------------ value model *)
\* canvas ids that name a room; "" stands for every falsy / non-string id
RoomIds == {"r1", "r2"}

\* a CanvasObject as far as the relay looks at it: id, type and the rest of
\* the payload (v).  nil = the JS value is null/undefined; id = "" and
\* type = "" stand for a missing (falsy) field.
Obj(id, type, v) == [nil |-> FALSE, id |-> id, type |-> type, v |-> v]
Null == [nil |-> TRUE, id |-> "", type |-> "", v |-> 0]

\* objects clients send in this model: well-formed ones, one without type,
\* one without id, and null
ObjectInputs ==
  { Obj("a", "stroke", 1), Obj("a", "", 2), Obj("b", "image", 1),
    Obj("", "stroke", 1), Null }

\* the objectIds field of a remove: an array of ids, or not an array
IdList(ids) == [isArray |-> TRUE, ids |-> ids]
NotArray == [isArray |-> FALSE, ids |-> <<>>]
IdInputs ==
  { IdList(<<>>), IdList(<<"a">>), IdList(<<"b">>), IdList(<<"b", "a">>),
    NotArray }

\* error texts
InvalidCanvasID == "Invalid canvas ID"
SessionFull == "Session is full"
InvalidObjectData == "Invalid object data"
InvalidStrokeData == "Invalid stroke data"
InvalidObjectRemoval == "Invalid object removal data"
InvalidStrokeRemoval == "Invalid stroke removal data"

VARIABLES
  sockets,       \* ids of the open connections
  rooms,         \* io.sockets.adapter.rooms: canvasId -> set of socket ids
  canvasUsers,   \* canvasUsers: canvasId -> socket ids with a UserInfo entry
  canvasStates,  \* canvasStates: canvasId -> object list
  last,          \* the inbound event the relay handled last
  out,           \* the messages that handler emitted, one per recipient
  applied,       \* history: per room, the mutation messages handled so far
  \* the clients (hooks useCollaboration and useCanvas), one per connection id
  objectsRef,          \* useCanvas objects / objectsRef: the local object list
  localActionHistory,  \* localActionHistoryRef: the per-user undo stack
  isLocalActionRef,    \* the echo-suppression flag
  timers,              \* ms left of each pending setTimeout that clears the flag
  isConnected,         \* useCollaboration isConnected (false while error is set)
  did,                 \* the event the client handled last
  sent,                \* the mutation messages that handler emitted, in order
  up,                  \* channel client -> relay, per client
  down,                \* channel relay -> client, per client
  base,                \* history: list and stack depth before each pending add
  now,                 \* Date.now(), in ms
  lastRef,             \* last...Ref.current of the four throttled senders
  thr,                 \* history: the throttled calls made and what they emitted
  incomingAssetChunksRef,  \* per tab, the Map seq -> bytes of the asset
  savedAsset,          \* per tab, the bytes given to storage.saveAsset
  upload,              \* per tab, the upload task: bytes, offset, seq, phase
  wire,                \* asset messages on their way to the receiving tab
  env,                 \* the blob, the delivery order, and what was assembled
  pageCanvasId,        \* CanvasPage canvasId: the route parameter, a prop of the hooks
  inProgressStrokes,   \* per tab, the Map nodeId -> stroke a peer is drawing
  remoteEraserPreviews,  \* per tab, the Map nodeId -> ids a peer is erasing
  remoteCursors,       \* per tab, the Map nodeId -> ms since the timestamp
  imageCache,          \* per tab, the asset ids in the render cache
  requestedAssetsRef,  \* per tab, the asset ids it has asked the relay for
  hasLoadedFromStorageRef,  \* per tab, the ref that stops further loads
  loadTask,            \* per tab, loadFromStorage: "idle" or "pending"
  dbObjects            \* per tab, the objects of the canvas in IndexedDB

\* the relay's and the clients' share of the state
rvars == <<sockets, rooms, canvasUsers, canvasStates, last, out>>
cvars == <<objectsRef, localActionHistory, isLocalActionRef, timers, isConnected,
           did, sent, up, down, base>>
\* the state of the throttled senders
tvars == <<now, lastRef, thr>>
\* the state of the asset transfer
\* a tab's local store, render cache and requests
lvars == <<hasLoadedFromStorageRef, loadTask, dbObjects>>
svars == <<savedAsset, imageCache, requestedAssetsRef, lvars>>
wvars == <<incomingAssetChunksRef, upload, wire, env>>
avars == <<wvars, svars>>
\* the props of the page
pvars == <<pageCanvasId>>
\* what a tab shows of its peers while they work
uvars == <<inProgressStrokes, remoteEraserPreviews, remoteCursors>>
yvars == <<tvars, wvars, pvars>>
xvars == <<yvars, uvars, svars>>
vars == <<sockets, rooms, canvasUsers, canvasStates, last, out, applied,
          objectsRef, localActionHistory, isLocalActionRef, timers, isConnected,
          did, sent, up, down, base, now, lastRef, thr,
          incomingAssetChunksRef, savedAsset, upload, wire, env, pageCanvasId,
          inProgressStrokes, remoteEraserPreviews, remoteCursors,
          imageCache, requestedAssetsRef, hasLoadedFromStorageRef, loadTask,
          dbObjects>>

(* ---------------------------------------------------------------- messages *)
\* one emitted message, addressed to one connection
Msg(to, ev, canvasId, object, objects, ids, message, nodeId) ==
  [to |-> to, ev |-> ev, canvasId |-> canvasId, object |-> object,
   objects |-> objects, ids |-> ids, message |-> message, nodeId |-> nodeId]

\* mutant: the reply is sent with io.emit, to every open connection
emit_toAll(socket) == sockets

\* socket.emit(...): the recipients of a point-to-point reply
emit(socket) == {socket}

\* socket.emit('error', { message })
EmitError(socket, message) ==
  { Msg(r, "error", "", Null, <<>>, NotArray, message, 0) : r \in emit(socket) }

\* an inbound event
In(ev, from, canvasId, object, ids) ==
  [ev |-> ev, from |-> from, canvasId |-> canvasId, object |-> object,
   ids |-> ids]

\* mutant: io.to(canvasId), which includes the sender
to_wholeRoom(socket, canvasId) == rooms[canvasId]

\* socket.to(canvasId): every socket in the room except the sender
to(socket, canvasId) == rooms[canvasId] \ {socket}

Broadcast(socket, ev, canvasId, object, ids) ==
  { Msg(r, ev, canvasId, object, <<>>, ids, "", 0) : r \in to(socket, canvasId) }

(* ----------------------------------------------------- object list helpers *)
\* objects.findIndex((o) => o.id === id), 0 for -1
findIndex(objects, id) ==
  IF \E i \in 1..Len(objects) : objects[i].id = id
    THEN CHOOSE i \in 1..Len(objects) :
           /\ objects[i].id = id
           /\ \A j \in 1..(i - 1) : objects[j].id # id
    ELSE 0

\* objects.splice(index, 1)
splice(objects, index) ==
  [i \in 1..(Len(objects) - 1) |->
     IF i < index THEN objects[i] ELSE objects[i + 1]]

\* mutant: the id is not checked
normalizeObject_noIdCheck(object) ==
  IF object.nil THEN Null
  ELSE IF object.type = "" THEN [object EXCEPT !.type = "stroke"]
  ELSE object

normalizeObject(object) ==
  IF object.nil \/ object.id = "" THEN Null
  ELSE IF object.type = "" THEN [object EXCEPT !.type = "stroke"]
  ELSE object

\* mutant: the object is pushed without the duplicate check
addObjectToCanvas_noFind(objects, object) ==
  LET normalized == normalizeObject(object) IN
  IF normalized.nil THEN [objects |-> objects, ret |-> Null]
  ELSE [objects |-> Append(objects, normalized), ret |-> normalized]

\* mutant: a duplicate is not pushed but still reported as added
addObjectToCanvas_reportsDuplicate(objects, object) ==
  LET normalized == normalizeObject(object) IN
  IF normalized.nil THEN [objects |-> objects, ret |-> Null]
  ELSE IF findIndex(objects, normalized.id) = 0
    THEN [objects |-> Append(objects, normalized), ret |-> normalized]
    ELSE [objects |-> objects, ret |-> normalized]

\* objects is getCanvasState(canvasId); the result is the list afterwards and
\* the returned value
addObjectToCanvas(objects, object) ==
  LET normalized == normalizeObject(object) IN
  IF normalized.nil THEN [objects |-> objects, ret |-> Null]
  ELSE IF findIndex(objects, normalized.id) = 0
    THEN [objects |-> Append(objects, normalized), ret |-> normalized]
    ELSE [objects |-> objects, ret |-> Null]

\* mutant: an update of an id that is not in the list changes nothing
updateObjectInCanvas_noPush(objects, object) ==
  LET normalized == normalizeObject(object)
      index == findIndex(objects, normalized.id) IN
  IF normalized.nil THEN [objects |-> objects, ret |-> Null]
  ELSE IF index # 0
    THEN [objects |-> [objects EXCEPT ![index] = normalized],
          ret |-> normalized]
    ELSE [objects |-> objects, ret |-> normalized]

updateObjectInCanvas(objects, object) ==
  LET normalized == normalizeObject(object)
      index == findIndex(objects, normalized.id) IN
  IF normalized.nil THEN [objects |-> objects, ret |-> Null]
  ELSE IF index # 0
    THEN [objects |-> [objects EXCEPT ![index] = normalized],
          ret |-> normalized]
    ELSE [objects |-> Append(objects, normalized), ret |-> normalized]

\* objectIds.forEach(...): one findIndex/splice per listed id, in list order
RECURSIVE forEachRemove(_, _)
forEachRemove(objects, objectIds) ==
  IF objectIds = <<>> THEN objects
  ELSE LET index == findIndex(objects, Head(objectIds)) IN
       forEachRemove(IF index # 0 THEN splice(objects, index) ELSE objects,
                     Tail(objectIds))

\* mutant: the function reports a removal whenever ids were listed
removeObjectsFromCanvas_alwaysTrue(objects, objectIds) ==
  LET after == forEachRemove(objects, objectIds) IN
  [objects |-> after, ret |-> objectIds # <<>>]

removeObjectsFromCanvas(objects, objectIds) ==
  LET after == forEachRemove(objects, objectIds) IN
  [objects |-> after, ret |-> Len(after) # Len(objects)]

(* ----------------------------------------------------------------- handlers *)
\* mutant: the size check counts one member too few
currentUsers_offByOne(canvasId) == Cardinality(rooms[canvasId]) - 1

\* const currentUsers = room ? room.size : 0
currentUsers(canvasId) == Cardinality(rooms[canvasId])

\* mutant: the snapshot leaves out the newest object
snapshot_dropsNewest(canvasId) ==
  SubSeq(canvasStates[canvasId], 1, Len(canvasStates[canvasId]) - 1)

\* getCanvasState(canvasId).map(normalizeObject).filter(Boolean)
snapshot(canvasId) ==
  SelectSeq([i \in 1..Len(canvasStates[canvasId]) |->
               normalizeObject(canvasStates[canvasId][i])],
            LAMBDA o : ~o.nil)

\* mutant: the socket joins the room before the size check
JoinCanvas_joinsFirst(socket, canvasId) ==
  /\ socket \in sockets
  /\ last' = In("join-canvas", socket, canvasId, Null, NotArray)
  /\ IF canvasId = ""
       THEN /\ out' = EmitError(socket, InvalidCanvasID)
            /\ UNCHANGED <<rooms, canvasUsers>>
     ELSE /\ rooms' = [rooms EXCEPT ![canvasId] = @ \cup {socket}]
          /\ canvasUsers' = [canvasUsers EXCEPT ![canvasId] = @ \cup {socket}]
          /\ IF currentUsers(canvasId) >= MAX_USERS_PER_SESSION
               THEN out' = EmitError(socket, SessionFull)
               ELSE out' = { Msg(r, "canvas-state", canvasId, Null,
                                 snapshot(canvasId), NotArray, "", 0)
                             : r \in emit(socket) }
  /\ UNCHANGED <<sockets, canvasStates>>

\* socket.on('join-canvas')
JoinCanvas(socket, canvasId) ==
  /\ socket \in sockets
  /\ last' = In("join-canvas", socket, canvasId, Null, NotArray)
  /\ IF canvasId = ""
       THEN /\ out' = EmitError(socket, InvalidCanvasID)
            /\ UNCHANGED <<rooms, canvasUsers>>
     ELSE IF currentUsers(canvasId) >= MAX_USERS_PER_SESSION
       THEN /\ out' = EmitError(socket, SessionFull)
            /\ UNCHANGED <<rooms, canvasUsers>>
     ELSE /\ rooms' = [rooms EXCEPT ![canvasId] = @ \cup {socket}]
          /\ canvasUsers' = [canvasUsers EXCEPT ![canvasId] = @ \cup {socket}]
          /\ out' = { Msg(r, "canvas-state", canvasId, Null,
                          snapshot(canvasId), NotArray, "", 0)
                      : r \in emit(socket) }
  /\ UNCHANGED <<sockets, canvasStates>>

\* socket.on('object-added')
ObjectAdded(socket, canvasId, object) ==
  /\ socket \in sockets
  /\ last' = In("object-added", socket, canvasId, object, NotArray)
  /\ IF canvasId = ""
       THEN /\ out' = EmitError(socket, InvalidCanvasID)
            /\ UNCHANGED canvasStates
     ELSE LET r == addObjectToCanvas(canvasStates[canvasId], object)
              added == r.ret IN
          /\ canvasStates' = [canvasStates EXCEPT ![canvasId] = r.objects]
          /\ IF added.nil
               THEN out' = EmitError(socket, InvalidObjectData)
               ELSE out' =
                      Broadcast(socket, "object-added", canvasId, added, NotArray)
                      \cup (IF added.type = "stroke"
                              THEN Broadcast(socket, "stroke-added", canvasId,
                                             added, NotArray)
                              ELSE {})
  /\ UNCHANGED <<sockets, rooms, canvasUsers>>

\* socket.on('object-updated')
ObjectUpdated(socket, canvasId, object) ==
  /\ socket \in sockets
  /\ last' = In("object-updated", socket, canvasId, object, NotArray)
  /\ IF canvasId = ""
       THEN /\ out' = EmitError(socket, InvalidCanvasID)
            /\ UNCHANGED canvasStates
     ELSE LET r == updateObjectInCanvas(canvasStates[canvasId], object)
              updated == r.ret IN
          /\ canvasStates' = [canvasStates EXCEPT ![canvasId] = r.objects]
          /\ IF updated.nil
               THEN out' = EmitError(socket, InvalidObjectData)
               ELSE out' = Broadcast(socket, "object-updated", canvasId,
                                     updated, NotArray)
  /\ UNCHANGED <<sockets, rooms, canvasUsers>>

\* socket.on('stroke-added'), the legacy add
StrokeAdded(socket, canvasId, stroke) ==
  /\ socket \in sockets
  /\ last' = In("stroke-added", socket, canvasId, stroke, NotArray)
  /\ IF canvasId = ""
       THEN /\ out' = EmitError(socket, InvalidCanvasID)
            /\ UNCHANGED canvasStates
     ELSE LET r == addObjectToCanvas(canvasStates[canvasId], stroke)
              added == r.ret IN
          /\ canvasStates' = [canvasStates EXCEPT ![canvasId] = r.objects]
          /\ IF added.nil
               THEN out' = EmitError(socket, InvalidStrokeData)
               ELSE out' =
                      Broadcast(socket, "stroke-added", canvasId, added, NotArray)
                      \cup Broadcast(socket, "object-added", canvasId, added,
                                     NotArray)
  /\ UNCHANGED <<sockets, rooms, canvasUsers>>

\* socket.on('object-removed')
ObjectRemoved(socket, canvasId, objectIds) ==
  /\ socket \in sockets
  /\ last' = In("object-removed", socket, canvasId, Null, objectIds)
  /\ IF canvasId = "" \/ ~objectIds.isArray
       THEN /\ out' = EmitError(socket, InvalidObjectRemoval)
            /\ UNCHANGED canvasStates
     ELSE LET r == removeObjectsFromCanvas(canvasStates[canvasId],
                                           objectIds.ids)
              removed == r.ret IN
          /\ canvasStates' = [canvasStates EXCEPT ![canvasId] = r.objects]
          /\ IF removed
               THEN out' =
                      Broadcast(socket, "object-removed", canvasId, Null,
                                objectIds)
                      \cup Broadcast(socket, "stroke-removed", canvasId, Null,
                                     objectIds)
               ELSE out' = {}
  /\ UNCHANGED <<sockets, rooms, canvasUsers>>

\* socket.on('stroke-removed'), the legacy remove
StrokeRemoved(socket, canvasId, strokeIds) ==
  /\ socket \in sockets
  /\ last' = In("stroke-removed", socket, canvasId, Null, strokeIds)
  /\ IF canvasId = "" \/ ~strokeIds.isArray
       THEN /\ out' = EmitError(socket, InvalidStrokeRemoval)
            /\ UNCHANGED canvasStates
     ELSE LET r == removeObjectsFromCanvas(canvasStates[canvasId],
                                           strokeIds.ids)
              removed == r.ret IN
          /\ canvasStates' = [canvasStates EXCEPT ![canvasId] = r.objects]
          /\ IF removed
               THEN out' =
                      Broadcast(socket, "stroke-removed", canvasId, Null,
                                strokeIds)
                      \cup Broadcast(socket, "object-removed", canvasId, Null,
                                     strokeIds)
               ELSE out' = {}
  /\ UNCHANGED <<sockets, rooms, canvasUsers>>

\* mutant: the clear empties the list of every room
CanvasCleared_allRooms(socket, canvasId) ==
  /\ socket \in sockets
  /\ last' = In("canvas-cleared", socket, canvasId, Null, NotArray)
  /\ IF canvasId = ""
       THEN /\ out' = EmitError(socket, InvalidCanvasID)
            /\ UNCHANGED canvasStates
     ELSE /\ canvasStates' = [r \in RoomIds |-> <<>>]
          /\ out' = Broadcast(socket, "canvas-cleared", canvasId, Null,
                              NotArray)
  /\ UNCHANGED <<sockets, rooms, canvasUsers>>

\* socket.on('canvas-cleared')
CanvasCleared(socket, canvasId) ==
  /\ socket \in sockets
  /\ last' = In("canvas-cleared", socket, canvasId, Null, NotArray)
  /\ IF canvasId = ""
       THEN /\ out' = EmitError(socket, InvalidCanvasID)
            /\ UNCHANGED canvasStates
     ELSE /\ canvasStates' = [canvasStates EXCEPT ![canvasId] = <<>>]
          /\ out' = Broadcast(socket, "canvas-cleared", canvasId, Null,
                              NotArray)
  /\ UNCHANGED <<sockets, rooms, canvasUsers>>

(* ------------------------------------------- presence and preview handlers *)
\* payloads of the ephemeral messages: a cursor position, a partial stroke
\* (tool, color, size, points: it has neither id nor type), and the moved
\* copies of a drag preview, given as an array or not
Position == [nil |-> FALSE, id |-> "", type |-> "position", v |-> 0]
PartialStroke == [nil |-> FALSE, id |-> "", type |-> "partial", v |-> 0]
ObjArray(isArray, objs) == [isArray |-> isArray, objs |-> objs]

\* socket.to(canvasId).emit(ev, payload) of an ephemeral message
Forward(socket, ev, canvasId, object, objects, ids) ==
  { Msg(r, ev, canvasId, object, objects, ids, "", socket)
    : r \in to(socket, canvasId) }

\* socket.on('cursor-update')
CursorUpdate(socket, canvasId, position) ==
  /\ socket \in sockets
  /\ last' = In("cursor-update", socket, canvasId, position, NotArray)
  /\ IF canvasId = "" \/ position.nil
       THEN out' = {}
     ELSE IF socket \in canvasUsers[canvasId]
       THEN out' = Forward(socket, "cursor-update", canvasId, position, <<>>,
                           NotArray)
     ELSE out' = {}
  /\ UNCHANGED <<sockets, rooms, canvasUsers, canvasStates>>

\* socket.on('cursor-stop')
CursorStop(socket, canvasId) ==
  /\ socket \in sockets
  /\ last' = In("cursor-stop", socket, canvasId, Null, NotArray)
  /\ IF canvasId # ""
       THEN out' = Forward(socket, "cursor-stop", canvasId, Null, <<>>,
                           NotArray)
       ELSE out' = {}
  /\ UNCHANGED <<sockets, rooms, canvasUsers, canvasStates>>

\* mutant: the relay stores the streamed stroke in the room's object list
StrokeProgress_persists(socket, canvasId, nodeIdStrokeId, stroke) ==
  /\ socket \in sockets
  /\ last' = In("stroke-progress", socket, canvasId, stroke,
                IdList(<<nodeIdStrokeId>>))
  /\ IF canvasId = "" \/ nodeIdStrokeId = "" \/ stroke.nil
       THEN out' = {} /\ UNCHANGED canvasStates
     ELSE IF socket \in canvasUsers[canvasId]
       THEN /\ out' = Forward(socket, "stroke-progress", canvasId, stroke,
                              <<>>, IdList(<<nodeIdStrokeId>>))
            /\ canvasStates' =
                 [canvasStates EXCEPT ![canvasId] = Append(@, stroke)]
     ELSE out' = {} /\ UNCHANGED canvasStates
  /\ UNCHANGED <<sockets, rooms, canvasUsers>>

\* socket.on('stroke-progress')
StrokeProgress(socket, canvasId, nodeIdStrokeId, stroke) ==
  /\ socket \in sockets
  /\ last' = In("stroke-progress", socket, canvasId, stroke,
                IdList(<<nodeIdStrokeId>>))
  /\ IF canvasId = "" \/ nodeIdStrokeId = "" \/ stroke.nil
       THEN out' = {}
     ELSE IF socket \in canvasUsers[canvasId]
       THEN out' = Forward(socket, "stroke-progress", canvasId, stroke, <<>>,
                           IdList(<<nodeIdStrokeId>>))
     ELSE out' = {}
  /\ UNCHANGED <<sockets, rooms, canvasUsers, canvasStates>>

\* socket.on('stroke-progress-end')
StrokeProgressEnd(socket, canvasId, nodeIdStrokeId) ==
  /\ socket \in sockets
  /\ last' = In("stroke-progress-end", socket, canvasId, Null,
                IdList(<<nodeIdStrokeId>>))
  /\ IF canvasId # "" /\ nodeIdStrokeId # ""
       THEN out' = Forward(socket, "stroke-progress-end", canvasId, Null, <<>>,
                           IdList(<<nodeIdStrokeId>>))
       ELSE out' = {}
  /\ UNCHANGED <<sockets, rooms, canvasUsers, canvasStates>>

\* socket.on('object-move-preview')
ObjectMovePreview(socket, canvasId, objects) ==
  /\ socket \in sockets
  /\ last' = In("object-move-preview", socket, canvasId, Null, NotArray)
  /\ IF canvasId = "" \/ ~objects.isArray
       THEN out' = {}
       ELSE out' = Forward(socket, "object-move-preview", canvasId, Null,
                           objects.objs, NotArray)
  /\ UNCHANGED <<sockets, rooms, canvasUsers, canvasStates>>

\* socket.on('object-move-preview-end')
ObjectMovePreviewEnd(socket, canvasId) ==
  /\ socket \in sockets
  /\ last' = In("object-move-preview-end", socket, canvasId, Null, NotArray)
  /\ IF canvasId # ""
       THEN out' = Forward(socket, "object-move-preview-end", canvasId, Null,
                           <<>>, NotArray)
       ELSE out' = {}
  /\ UNCHANGED <<sockets, rooms, canvasUsers, canvasStates>>

\* socket.on('eraser-preview'); objectIds is data.objectIds ?? data.strokeIds
EraserPreview(socket, canvasId, objectIds) ==
  /\ socket \in sockets
  /\ last' = In("eraser-preview", socket, canvasId, Null, objectIds)
  /\ IF canvasId = "" \/ ~objectIds.isArray
       THEN out' = {}
       ELSE out' = Forward(socket, "eraser-preview", canvasId, Null, <<>>,
                           objectIds)
  /\ UNCHANGED <<sockets, rooms, canvasUsers, canvasStates>>

\* socket.on('eraser-preview-end')
EraserPreviewEnd(socket, canvasId) ==
  /\ socket \in sockets
  /\ last' = In("eraser-preview-end", socket, canvasId, Null, NotArray)
  /\ IF canvasId # ""
       THEN out' = Forward(socket, "eraser-preview-end", canvasId, Null, <<>>,
                           NotArray)
       ELSE out' = {}
  /\ UNCHANGED <<sockets, rooms, canvasUsers, canvasStates>>

\* io.to(canvasId).emit(ev, { nodeId }) once the socket has left its rooms
Notify(members, ev, canvasId, nodeId) ==
  { Msg(r, ev, canvasId, Null, <<>>, NotArray, "", nodeId) : r \in members }

\* mutant: the object list of a room is dropped when its last member leaves
Disconnect_dropsEmptyRoom(socket) ==
  /\ socket \in sockets
  /\ last' = In("disconnect", socket, "", Null, NotArray)
  /\ sockets' = sockets \ {socket}
  /\ rooms' = [r \in RoomIds |-> rooms[r] \ {socket}]
  /\ canvasUsers' = [r \in RoomIds |-> canvasUsers[r] \ {socket}]
  /\ out' = UNION { Notify(rooms[r] \ {socket}, "cursor-stop", r, socket)
                    \cup Notify(rooms[r] \ {socket}, "eraser-preview-end", r,
                                socket)
                    : r \in { c \in RoomIds : socket \in canvasUsers[c] } }
  /\ canvasStates' = [r \in RoomIds |->
                        IF rooms[r] = {socket} THEN <<>> ELSE canvasStates[r]]

\* socket.on('disconnect'): the library has taken the socket out of every
\* adapter room before the handler runs
Disconnect(socket) ==
  /\ socket \in sockets
  /\ last' = In("disconnect", socket, "", Null, NotArray)
  /\ sockets' = sockets \ {socket}
  /\ rooms' = [r \in RoomIds |-> rooms[r] \ {socket}]
  /\ canvasUsers' = [r \in RoomIds |-> canvasUsers[r] \ {socket}]
  /\ out' = UNION { Notify(rooms[r] \ {socket}, "cursor-stop", r, socket)
                    \cup Notify(rooms[r] \ {socket}, "eraser-preview-end", r,
                                socket)
                    : r \in { c \in RoomIds : socket \in canvasUsers[c] } }
  /\ UNCHANGED canvasStates

\* the value thrown by a handler, kept in the object field of last
Thrown == [nil |-> TRUE, id |-> "", type |-> "TypeError", v |-> 0]

\* the events whose handlers read a property of data before any test:
\* "typeof data === 'string' ? data : data.canvasId" in join-canvas,
\* "const { canvasId, ... } = data" in the others
DataReaders ==
  {"join-canvas", "object-added", "object-updated", "stroke-added",
   "object-removed", "stroke-removed", "canvas-cleared"}

\* a message of event ev whose payload is null or absent: the handler throws
\* a TypeError at its first line; nothing catches it (the relay has neither
\* try/catch nor an uncaughtException handler), so Node ends the process,
\* and with it every connection and the in-memory maps
NullPayload(socket, ev) ==
  /\ socket \in sockets
  /\ ev \in DataReaders
  /\ last' = In(ev, socket, "", Thrown, NotArray)
  /\ sockets' = {}
  /\ rooms' = [r \in RoomIds |-> {}]
  /\ canvasUsers' = [r \in RoomIds |-> {}]
  /\ canvasStates' = [r \in RoomIds |-> <<>>]
  /\ out' = {}

(* ------------------------------------------------------------- the client *)
(* One browser tab: the hooks useCollaboration (src/unnamed/part_008) and   *)
(* useCanvas (src/client/hooks/useCanvas.ts).  Every socket listener, DOM   *)
(* handler and timer callback runs to completion on the tab's event loop,   *)
(* and React commits the list and re-syncs objectsRef before the next       *)
(* event, so each handler is one atomic action on objectsRef.  Client c     *)
(* owns connection c; socket.connected is c \in sockets.                     *)

\* the room the page opens first
FirstCanvasId == "r1"

\* the canvasId prop of the hooks
CanvasId == pageCanvasId

\* the tabs; tab c owns connection c
Clients == 1..NClients

\* socket.emit(ev, { canvasId, object / objectIds, timestamp })
ClientMsg(ev, object, ids) ==
  [ev |-> ev, canvasId |-> CanvasId, object |-> object, ids |-> ids]

\* what a handler records in did
Did(c, ev, data) ==
  Msg(c, ev, data.canvasId, data.object, data.objects, data.ids, data.message,
      data.nodeId)
NoData == Msg(0, "", CanvasId, Null, <<>>, NotArray, "", 0)

\* mutant: the callback appends without looking for the id
onObjectAdded_noFind(prev, object) == Append(prev, object)

\* useCanvas onObjectAdded: setObjects((prev) => ...)
onObjectAdded(prev, object) ==
  IF \E i \in 1..Len(prev) : prev[i].id = object.id
    THEN prev
    ELSE Append(prev, object)

\* useCanvas onObjectUpdated
onObjectUpdated(prev, object) ==
  [i \in 1..Len(prev) |-> IF prev[i].id = object.id THEN object ELSE prev[i]]

\* useCanvas onObjectRemoved
onObjectRemoved(prev, objectIds) ==
  SelectSeq(prev, LAMBDA o : \A i \in 1..Len(objectIds) : objectIds[i] # o.id)

\* mutant: the senders set the flag and emit, and schedule no timeout
sendMutation_noTimeout(c, msgs) ==
  IF c \in sockets /\ msgs # <<>>
    THEN /\ isLocalActionRef' = [isLocalActionRef EXCEPT ![c] = TRUE]
         /\ sent' = msgs
         /\ UNCHANGED timers
    ELSE /\ sent' = <<>>
         /\ UNCHANGED <<isLocalActionRef, timers>>

\* sendObjectAdded / sendObjectRemoved / sendCanvasCleared, called once per
\* message of msgs: each call sets the flag, emits, and schedules a timeout
\* that clears the flag
sendMutation(c, msgs) ==
  IF c \in sockets /\ msgs # <<>>
    THEN /\ isLocalActionRef' = [isLocalActionRef EXCEPT ![c] = TRUE]
         /\ timers' = [timers EXCEPT ![c] = @ \cup {ECHO_TIMEOUT}]
         /\ sent' = msgs
    ELSE /\ sent' = <<>>
         /\ UNCHANGED <<isLocalActionRef, timers>>

\* socket.on('connect'), with the relay's io.on('connection') that opens
\* connection c
Connect(c) ==
  /\ c \notin sockets
  /\ sockets' = sockets \cup {c}
  /\ did' = Did(c, "connect", NoData)
  /\ isConnected' = [isConnected EXCEPT ![c] = TRUE]
  /\ sent' = << ClientMsg("join-canvas", Null, NotArray) >>
  /\ last' = In("connection", c, "", Null, NotArray)
  /\ UNCHANGED <<rooms, canvasUsers, canvasStates, out, objectsRef,
                 localActionHistory, isLocalActionRef, timers>>

\* the connection is lost: the relay's socket.on('disconnect') and the
\* client's socket.on('disconnect')
Drop(c) ==
  /\ Disconnect(c)
  /\ did' = Did(c, "disconnect", NoData)
  /\ isConnected' = [isConnected EXCEPT ![c] = FALSE]
  /\ sent' = <<>>
  /\ UNCHANGED <<objectsRef, localActionHistory, isLocalActionRef, timers>>

\* the page's route parameter changes to id: the cleanup of the effect of
\* useCollaboration that depends on canvasId disconnects the socket, the
\* effect runs again for the new canvasId and opens a socket that connects
\* later; the refs of the hooks stay as they are
ChangeRoom(c, id) ==
  /\ id # pageCanvasId
  /\ pageCanvasId' = id
  /\ IF c \in sockets THEN Disconnect(c) ELSE UNCHANGED rvars
  /\ did' = Did(c, "room-change", [NoData EXCEPT !.canvasId = id])
  /\ isConnected' = [isConnected EXCEPT ![c] = FALSE]
  /\ sent' = <<>>
  /\ UNCHANGED <<objectsRef, localActionHistory, isLocalActionRef, timers>>

\* Map.set and Map.delete on a Map held as a function
Put(m, k, val) == [x \in DOMAIN m \cup {k} |-> IF x = k THEN val ELSE m[x]]
Del(m, k) == [x \in DOMAIN m \ {k} |-> m[x]]
EmptyMap == [x \in {} |-> 0]

\* a stroke's points: v stands for points[0], and v = 0 for an empty array
\* useCanvas onObjectAdded, setInProgressStrokes((prev) => ...) for a stroke
retire(prev, object) ==
  IF object.type = "stroke"
    THEN LET firstPointMatch(n) ==
               /\ prev[n].v # 0 /\ object.v # 0
               /\ prev[n].v = object.v
         IN [n \in { x \in DOMAIN prev : ~firstPointMatch(x) } |-> prev[n]]
    ELSE prev

\* mutant: the snapshot is merged into the local list
OnCanvasState_merges(c, data) ==
  /\ c \in sockets
  /\ did' = Did(c, "canvas-state", data)
  /\ sent' = <<>>
  /\ IF data.canvasId = CanvasId
       THEN /\ isLocalActionRef' = [isLocalActionRef EXCEPT ![c] = TRUE]
            /\ objectsRef' = [objectsRef EXCEPT ![c] = @ \o
                 SelectSeq(data.objects, LAMBDA o :
                   \A i \in 1..Len(objectsRef[c]) : objectsRef[c][i].id # o.id)]
            /\ timers' = [timers EXCEPT ![c] = @ \cup {ECHO_TIMEOUT}]
            /\ hasLoadedFromStorageRef' =
                 [hasLoadedFromStorageRef EXCEPT ![c] = TRUE]
       ELSE UNCHANGED <<isLocalActionRef, objectsRef, timers,
                        hasLoadedFromStorageRef>>
  /\ UNCHANGED <<rvars, uvars, savedAsset, imageCache, requestedAssetsRef,
                 loadTask, dbObjects, localActionHistory, isConnected>>

\* socket.on('canvas-state') and useCanvas onCanvasState
OnCanvasState(c, data) ==
  /\ c \in sockets
  /\ did' = Did(c, "canvas-state", data)
  /\ sent' = <<>>
  /\ IF data.canvasId = CanvasId
       THEN /\ isLocalActionRef' = [isLocalActionRef EXCEPT ![c] = TRUE]
            /\ objectsRef' = [objectsRef EXCEPT ![c] = data.objects]
            /\ timers' = [timers EXCEPT ![c] = @ \cup {ECHO_TIMEOUT}]
            /\ hasLoadedFromStorageRef' =
                 [hasLoadedFromStorageRef EXCEPT ![c] = TRUE]
       ELSE UNCHANGED <<isLocalActionRef, objectsRef, timers,
                        hasLoadedFromStorageRef>>
  /\ UNCHANGED <<rvars, uvars, savedAsset, imageCache, requestedAssetsRef,
                 loadTask, dbObjects, localActionHistory, isConnected>>

\* mutant: the listener applies the add whatever the flag says
OnObjectAdded_ignoresFlag(c, data) ==
  /\ c \in sockets
  /\ did' = Did(c, "object-added", data)
  /\ sent' = <<>>
  /\ IF data.canvasId = CanvasId /\ ~data.object.nil
       THEN /\ inProgressStrokes' =
                 [inProgressStrokes EXCEPT ![c] = retire(@, data.object)]
            /\ objectsRef' =
                 [objectsRef EXCEPT ![c] = onObjectAdded(@, data.object)]
       ELSE UNCHANGED <<objectsRef, inProgressStrokes>>
  /\ UNCHANGED <<rvars, svars, remoteEraserPreviews, remoteCursors,
                 localActionHistory, isLocalActionRef, timers, isConnected>>

\* socket.on('object-added')
OnObjectAdded(c, data) ==
  /\ c \in sockets
  /\ did' = Did(c, "object-added", data)
  /\ sent' = <<>>
  /\ IF data.canvasId = CanvasId /\ ~data.object.nil /\ ~isLocalActionRef[c]
       THEN /\ inProgressStrokes' =
                 [inProgressStrokes EXCEPT ![c] = retire(@, data.object)]
            /\ objectsRef' =
                 [objectsRef EXCEPT ![c] = onObjectAdded(@, data.object)]
       ELSE UNCHANGED <<objectsRef, inProgressStrokes>>
  /\ UNCHANGED <<rvars, svars, remoteEraserPreviews, remoteCursors,
                 localActionHistory, isLocalActionRef, timers, isConnected>>

\* socket.on('object-removed')
OnObjectRemoved(c, data) ==
  /\ c \in sockets
  /\ did' = Did(c, "object-removed", data)
  /\ sent' = <<>>
  /\ IF data.canvasId = CanvasId /\ data.ids.isArray /\ ~isLocalActionRef[c]
       THEN objectsRef' =
              [objectsRef EXCEPT ![c] = onObjectRemoved(@, data.ids.ids)]
       ELSE UNCHANGED objectsRef
  /\ UNCHANGED <<rvars, uvars, svars, localActionHistory, isLocalActionRef, timers,
                 isConnected>>

\* socket.on('object-updated'): not gated by the flag
OnObjectUpdated(c, data) ==
  /\ c \in sockets
  /\ did' = Did(c, "object-updated", data)
  /\ sent' = <<>>
  /\ IF data.canvasId = CanvasId /\ ~data.object.nil
       THEN objectsRef' =
              [objectsRef EXCEPT ![c] = onObjectUpdated(@, data.object)]
       ELSE UNCHANGED objectsRef
  /\ UNCHANGED <<rvars, uvars, svars, localActionHistory, isLocalActionRef, timers,
                 isConnected>>

\* socket.on('canvas-cleared') and useCanvas onCanvasCleared
OnCanvasCleared(c, data) ==
  /\ c \in sockets
  /\ did' = Did(c, "canvas-cleared", data)
  /\ sent' = <<>>
  /\ IF data.canvasId = CanvasId /\ ~isLocalActionRef[c]
       THEN /\ objectsRef' = [objectsRef EXCEPT ![c] = <<>>]
            /\ imageCache' = [imageCache EXCEPT ![c] = {}]
            /\ savedAsset' = [savedAsset EXCEPT ![c] =
                                [has |-> FALSE, bytes |-> <<>>]]
            /\ dbObjects' = [dbObjects EXCEPT ![c] = <<>>]
       ELSE UNCHANGED <<objectsRef, imageCache, savedAsset, dbObjects>>
  /\ UNCHANGED <<rvars, uvars, requestedAssetsRef, hasLoadedFromStorageRef,
                 loadTask, localActionHistory, isLocalActionRef, timers,
                 isConnected>>

\* mutant: the error handler also empties the undo stack
OnError_dropsHistory(c, data) ==
  /\ c \in sockets
  /\ did' = Did(c, "error", data)
  /\ sent' = <<>>
  /\ isConnected' = [isConnected EXCEPT ![c] = FALSE]
  /\ localActionHistory' = [localActionHistory EXCEPT ![c] = <<>>]
  /\ UNCHANGED <<rvars, uvars, svars, objectsRef, isLocalActionRef, timers>>

\* socket.on('error'): setError, setIsConnected(false)
OnError(c, data) ==
  /\ c \in sockets
  /\ did' = Did(c, "error", data)
  /\ sent' = <<>>
  /\ isConnected' = [isConnected EXCEPT ![c] = FALSE]
  /\ UNCHANGED <<rvars, uvars, svars, objectsRef, localActionHistory,
                 isLocalActionRef, timers>>

\* a setTimeout callback of a send or of a snapshot:
\* isLocalActionRef.current = false
TimerFires(c) ==
  /\ 0 \in timers[c]
  /\ did' = Did(c, "timeout", NoData)
  /\ sent' = <<>>
  /\ isLocalActionRef' = [isLocalActionRef EXCEPT ![c] = FALSE]
  /\ timers' = [timers EXCEPT ![c] = @ \ {0}]
  /\ UNCHANGED <<rvars, objectsRef, localActionHistory, isConnected>>

\* d ms pass; a timeout that is due runs before more time passes
Tick(d) ==
  /\ \A c \in Clients : \A t \in timers[c] : t >= d
  /\ did' = Did(0, "tick", NoData)
  /\ sent' = <<>>
  /\ timers' = [c \in Clients |-> { t - d : t \in timers[c] }]
  /\ UNCHANGED <<rvars, objectsRef, localActionHistory, isLocalActionRef,
                 isConnected>>

\* mutant: the stroke is drawn and sent but not pushed on the undo stack
DrawStroke_noHistory(c, id) ==
  /\ isConnected[c]
  /\ LET newObject == Obj(id, "stroke", 1) IN
     /\ did' = Did(c, "draw", [NoData EXCEPT !.object = newObject])
     /\ objectsRef' = [objectsRef EXCEPT ![c] = Append(@, newObject)]
     /\ sendMutation(c, << ClientMsg("object-added", newObject, NotArray) >>)
  /\ UNCHANGED <<rvars, isConnected, localActionHistory>>

\* handleMouseUp with the brush: the new stroke, its id a fresh uuid
DrawStroke(c, id) ==
  /\ isConnected[c]
  /\ LET newObject == Obj(id, "stroke", 1) IN
     /\ did' = Did(c, "draw", [NoData EXCEPT !.object = newObject])
     /\ localActionHistory' =
          [localActionHistory EXCEPT
             ![c] = Append(@, [type |-> "add", object |-> newObject])]
     /\ objectsRef' = [objectsRef EXCEPT ![c] = Append(@, newObject)]
     /\ sendMutation(c, << ClientMsg("object-added", newObject, NotArray) >>)
  /\ UNCHANGED <<rvars, isConnected>>

\* handleMouseUp with the eraser; objectIdsToErase is what the preview found
Erase(c, objectIdsToErase) ==
  /\ isConnected[c]
  /\ objectIdsToErase # <<>>
  /\ did' = Did(c, "erase", [NoData EXCEPT !.ids = IdList(objectIdsToErase)])
  /\ LET objectsToRemove ==
           SelectSeq(objectsRef[c], LAMBDA o :
             \E i \in 1..Len(objectIdsToErase) : objectIdsToErase[i] = o.id)
     IN localActionHistory' =
          IF objectsToRemove # <<>>
            THEN [localActionHistory EXCEPT
                    ![c] = Append(@, [type |-> "remove",
                                      objects |-> objectsToRemove])]
            ELSE localActionHistory
  /\ objectsRef' =
       [objectsRef EXCEPT ![c] = onObjectRemoved(@, objectIdsToErase)]
  /\ sendMutation(c, << ClientMsg("object-removed", Null,
                                  IdList(objectIdsToErase)) >>)
  /\ UNCHANGED <<rvars, isConnected>>

\* clearCanvas
ClearCanvas(c) ==
  /\ isConnected[c]
  /\ did' = Did(c, "clear", NoData)
  /\ localActionHistory' =
       IF objectsRef[c] # <<>>
         THEN [localActionHistory EXCEPT
                 ![c] = Append(@, [type |-> "remove",
                                   objects |-> objectsRef[c]])]
         ELSE localActionHistory
  /\ objectsRef' = [objectsRef EXCEPT ![c] = <<>>]
  /\ imageCache' = [imageCache EXCEPT ![c] = {}]
  /\ savedAsset' = [savedAsset EXCEPT ![c] = [has |-> FALSE, bytes |-> <<>>]]
  /\ dbObjects' = [dbObjects EXCEPT ![c] = <<>>]
  /\ sendMutation(c, << ClientMsg("canvas-cleared", Null, NotArray) >>)
  /\ UNCHANGED <<rvars, isConnected, requestedAssetsRef,
                 hasLoadedFromStorageRef, loadTask>>

\* mutant: the undo of a remove restores every recorded object, present or
\* not
Undo_restoresAll(c) ==
  /\ isConnected[c]
  /\ localActionHistory[c] # <<>>
  /\ did' = Did(c, "undo", NoData)
  /\ LET action == localActionHistory[c][Len(localActionHistory[c])]
         restored == IF action.type = "add" THEN <<action.object>>
                                            ELSE action.objects
     IN /\ objectsRef' = [objectsRef EXCEPT ![c] = @ \o restored]
        /\ sendMutation(c, [i \in 1..Len(restored) |->
                              ClientMsg("object-added", restored[i], NotArray)])
  /\ localActionHistory' =
       [localActionHistory EXCEPT ![c] = SubSeq(@, 1, Len(@) - 1)]
  /\ UNCHANGED <<rvars, isConnected>>

\* mutant: the undo takes the stroke to be there
exists_always(currentObjects, id) == TRUE

\* handleKeyDown: currentObjects.some((o) => o.id === action.object.id)
exists(currentObjects, id) ==
  \E i \in 1..Len(currentObjects) : currentObjects[i].id = id

\* mutant: undoing an add clears the whole list
Undo_clearsList(c) ==
  /\ isConnected[c]
  /\ did' = Did(c, "undo", NoData)
  /\ localActionHistory[c] # <<>>
  /\ localActionHistory' =
       [localActionHistory EXCEPT ![c] = SubSeq(@, 1, Len(@) - 1)]
  /\ objectsRef' = [objectsRef EXCEPT ![c] = <<>>]
  /\ sendMutation(c, << ClientMsg("canvas-cleared", Null, NotArray) >>)
  /\ UNCHANGED <<rvars, isConnected>>

\* handleKeyDown, Ctrl+Z
Undo(c) ==
  /\ isConnected[c]
  /\ did' = Did(c, "undo", NoData)
  /\ IF localActionHistory[c] = <<>>
       THEN /\ sent' = <<>>
            /\ UNCHANGED <<objectsRef, localActionHistory, isLocalActionRef,
                           timers>>
     ELSE LET action == localActionHistory[c][Len(localActionHistory[c])]
              currentObjects == objectsRef[c]
          IN
          /\ localActionHistory' =
               [localActionHistory EXCEPT ![c] = SubSeq(@, 1, Len(@) - 1)]
          /\ IF action.type = "add"
               THEN IF ~exists(currentObjects, action.object.id)
                      THEN /\ UNCHANGED objectsRef
                           /\ sendMutation(c, <<>>)
                      ELSE /\ objectsRef' =
                                [objectsRef EXCEPT
                                   ![c] = SelectSeq(currentObjects, LAMBDA o :
                                            o.id # action.object.id)]
                           /\ sendMutation(c,
                                << ClientMsg("object-removed", Null,
                                             IdList(<<action.object.id>>)) >>)
             ELSE LET objectsToRestore ==
                        SelectSeq(action.objects, LAMBDA o :
                          \A i \in 1..Len(currentObjects) :
                             currentObjects[i].id # o.id)
                  IN IF objectsToRestore = <<>>
                       THEN /\ UNCHANGED objectsRef
                            /\ sendMutation(c, <<>>)
                       ELSE /\ objectsRef' =
                                 [objectsRef EXCEPT
                                    ![c] = currentObjects \o objectsToRestore]
                            /\ sendMutation(c,
                                 [i \in 1..Len(objectsToRestore) |->
                                    ClientMsg("object-added",
                                              objectsToRestore[i], NotArray)])
  /\ UNCHANGED <<rvars, isConnected>>

(* the throttled senders of useCollaboration *)
\* the throttled kinds; kind k is throttled by its own ref:
\* lastCursorUpdateRef, lastStrokeProgressRef, lastObjectMovePreviewRef,
\* lastEraserPreviewRef
Kinds ==
  {"cursor-update", "stroke-progress", "object-move-preview", "eraser-preview"}

\* the refs that hold the time of a last send: those of the throttled kinds
\* and useCanvas lastObjectUpdateRef
RefKinds == Kinds \cup {"object-updated"}

\* Date.now() when the hook mounts: some time not below THROTTLE, the refs
\* start at 0
FirstNow == THROTTLE

\* mutant: the sender does not test the time since the last accepted call
throttled_noTest(c, ev, payload) ==
  /\ did' = Did(c, ev, [NoData EXCEPT !.object = payload, !.message = "send"])
  /\ lastRef' = [lastRef EXCEPT ![c][ev] = now]
  /\ sent' = IF c \in sockets
               THEN << ClientMsg(ev, payload, NotArray) >>
               ELSE <<>>
  /\ UNCHANGED <<rvars, objectsRef, localActionHistory, isLocalActionRef,
                 timers, isConnected, now, avars>>

\* the body the four throttled senders share: return inside the window,
\* else store now in the ref and emit if the socket is connected.  The
\* payload of a call (position, stroke, objects, objectIds) is stood for by
\* an object whose v is the number of the call.
throttled(c, ev, payload) ==
  /\ did' = Did(c, ev, [NoData EXCEPT !.object = payload, !.message = "send"])
  /\ IF now - lastRef[c][ev] < THROTTLE
       THEN /\ sent' = <<>>
            /\ UNCHANGED lastRef
       ELSE /\ lastRef' = [lastRef EXCEPT ![c][ev] = now]
            /\ sent' = IF c \in sockets
                         THEN << ClientMsg(ev, payload, NotArray) >>
                         ELSE <<>>
  /\ UNCHANGED <<rvars, objectsRef, localActionHistory, isLocalActionRef,
                 timers, isConnected, now, avars>>

sendCursorUpdate(c, position) == throttled(c, "cursor-update", position)
sendStrokeProgress(c, stroke) == throttled(c, "stroke-progress", stroke)
sendObjectMovePreview(c, objects) ==
  throttled(c, "object-move-preview", objects)
sendEraserPreview(c, objectIds) == throttled(c, "eraser-preview", objectIds)


(* what a tab shows of its peers while they work *)
STALE_CURSOR == 3000
CURSOR_INTERVAL == 1000

\* the client state a listener of an ephemeral event leaves alone
Quiet == <<rvars, svars, objectsRef, localActionHistory, isLocalActionRef,
           timers, isConnected>>

\* socket.on('cursor-update') and Canvas handleCursorUpdate; the relay has
\* just stamped the message with Date.now()
OnCursorUpdate(c, data) ==
  /\ c \in sockets
  /\ did' = Did(c, "cursor-update", data)
  /\ sent' = <<>>
  /\ IF data.canvasId = CanvasId
       THEN remoteCursors' = [remoteCursors EXCEPT ![c] = Put(@, data.nodeId, 0)]
       ELSE UNCHANGED remoteCursors
  /\ UNCHANGED <<Quiet, inProgressStrokes, remoteEraserPreviews>>

\* socket.on('cursor-stop') and Canvas handleCursorStop
OnCursorStop(c, data) ==
  /\ c \in sockets
  /\ did' = Did(c, "cursor-stop", data)
  /\ sent' = <<>>
  /\ remoteCursors' = [remoteCursors EXCEPT ![c] = Del(@, data.nodeId)]
  /\ UNCHANGED <<Quiet, inProgressStrokes, remoteEraserPreviews>>

\* the callback of Canvas setInterval(..., 1000), CURSOR_INTERVAL after its
\* last run: a cursor whose timestamp is more than 3000 ms old is deleted
CursorInterval(c) ==
  /\ did' = Did(c, "cursor-interval", NoData)
  /\ sent' = <<>>
  /\ LET aged == [n \in DOMAIN remoteCursors[c] |->
                    remoteCursors[c][n] + CURSOR_INTERVAL]
     IN remoteCursors' = [remoteCursors EXCEPT ![c] =
          [n \in { x \in DOMAIN aged : ~(aged[x] > STALE_CURSOR) } |-> aged[n]]]
  /\ UNCHANGED <<Quiet, inProgressStrokes, remoteEraserPreviews>>

\* socket.on('stroke-progress') and useCanvas onStrokeProgress
OnStrokeProgress(c, data) ==
  /\ c \in sockets
  /\ did' = Did(c, "stroke-progress", data)
  /\ sent' = <<>>
  /\ IF data.canvasId = CanvasId
       THEN inProgressStrokes' = [inProgressStrokes EXCEPT ![c] =
              Put(@, data.nodeId, [nodeIdStrokeId |-> data.ids.ids[1],
                                   v |-> data.object.v])]
       ELSE UNCHANGED inProgressStrokes
  /\ UNCHANGED <<Quiet, remoteEraserPreviews, remoteCursors>>

\* socket.on('stroke-progress-end') and useCanvas onStrokeProgressEnd
OnStrokeProgressEnd(c, data) ==
  /\ c \in sockets
  /\ did' = Did(c, "stroke-progress-end", data)
  /\ sent' = <<>>
  /\ inProgressStrokes' = [inProgressStrokes EXCEPT ![c] = Del(@, data.nodeId)]
  /\ UNCHANGED <<Quiet, remoteEraserPreviews, remoteCursors>>

\* socket.on('eraser-preview') and useCanvas onEraserPreview
OnEraserPreview(c, data) ==
  /\ c \in sockets
  /\ did' = Did(c, "eraser-preview", data)
  /\ sent' = <<>>
  /\ IF data.canvasId = CanvasId
       THEN remoteEraserPreviews' = [remoteEraserPreviews EXCEPT ![c] =
              Put(@, data.nodeId,
                  { data.ids.ids[i] : i \in 1..Len(data.ids.ids) })]
       ELSE UNCHANGED remoteEraserPreviews
  /\ UNCHANGED <<Quiet, inProgressStrokes, remoteCursors>>

\* socket.on('eraser-preview-end') and useCanvas onEraserPreviewEnd
OnEraserPreviewEnd(c, data) ==
  /\ c \in sockets
  /\ did' = Did(c, "eraser-preview-end", data)
  /\ sent' = <<>>
  /\ remoteEraserPreviews' =
       [remoteEraserPreviews EXCEPT ![c] = Del(@, data.nodeId)]
  /\ UNCHANGED <<Quiet, inProgressStrokes, remoteCursors>>

(* moving a selection *)
\* translateStroke / { ...obj, x: obj.x + dx, y: obj.y + dy } with a non-zero
\* dx or dy: the payload v is one of two positions
translate(obj) == [obj EXCEPT !.v = 3 - @]

\* maybeSendObjectUpdate(object, force) and sendObjectUpdated
maybeSendObjectUpdate(c, object, force) ==
  IF ~force /\ now - lastRef[c]["object-updated"] < THROTTLE
    THEN sent' = <<>> /\ UNCHANGED lastRef
    ELSE /\ lastRef' = [lastRef EXCEPT ![c]["object-updated"] = now]
         /\ sent' = IF c \in sockets
                      THEN << ClientMsg("object-updated", object, NotArray) >>
                      ELSE <<>>

\* mutant: a move is recorded on the undo stack like an add
DragMove_pushes(c, id) ==
  /\ isConnected[c]
  /\ \E i \in 1..Len(objectsRef[c]) : objectsRef[c][i].id = id
  /\ LET next == [i \in 1..Len(objectsRef[c]) |->
                    IF objectsRef[c][i].id = id THEN translate(objectsRef[c][i])
                                                ELSE objectsRef[c][i]]
         moved == next[CHOOSE i \in 1..Len(next) : next[i].id = id]
     IN /\ did' = Did(c, "move", [NoData EXCEPT !.object = moved])
        /\ objectsRef' = [objectsRef EXCEPT ![c] = next]
        /\ localActionHistory' =
             [localActionHistory EXCEPT
                ![c] = Append(@, [type |-> "add", object |-> moved])]
        /\ maybeSendObjectUpdate(c, moved, FALSE)
  /\ UNCHANGED <<rvars, isLocalActionRef, timers, isConnected, now, thr,
                 avars>>

\* handleMouseMove with the select tool while the selection {id} is dragged
DragMove(c, id) ==
  /\ isConnected[c]
  /\ \E i \in 1..Len(objectsRef[c]) : objectsRef[c][i].id = id
  /\ LET next == [i \in 1..Len(objectsRef[c]) |->
                    IF objectsRef[c][i].id = id THEN translate(objectsRef[c][i])
                                                ELSE objectsRef[c][i]]
         moved == next[CHOOSE i \in 1..Len(next) : next[i].id = id]
     IN /\ did' = Did(c, "move", [NoData EXCEPT !.object = moved])
        /\ objectsRef' = [objectsRef EXCEPT ![c] = next]
        /\ maybeSendObjectUpdate(c, moved, FALSE)
  /\ UNCHANGED <<rvars, localActionHistory, isLocalActionRef, timers,
                 isConnected, now, thr, avars>>

\* handleMouseUp with the select tool at the end of a drag of {id}
DragEnd(c, id) ==
  /\ \E i \in 1..Len(objectsRef[c]) : objectsRef[c][i].id = id
  /\ LET obj == objectsRef[c][CHOOSE i \in 1..Len(objectsRef[c]) :
                                objectsRef[c][i].id = id]
     IN /\ did' = Did(c, "move-end", [NoData EXCEPT !.object = obj])
        /\ maybeSendObjectUpdate(c, obj, TRUE)
  /\ UNCHANGED <<rvars, objectsRef, localActionHistory, isLocalActionRef,
                 timers, isConnected, now, thr, avars>>

(* the asset transfer: the upload task of useCanvas, the asset senders of  *)
(* useCollaboration, and the receiving callbacks of useCanvas              *)
AssetId == "img"
\* the image object of the asset: const id = assetId
ImageObject == Obj(AssetId, "image", 1)

\* a blob of n bytes (Uint8), every byte different from its neighbours
Blob(n) == [i \in 1..n |-> i % 256]

\* an asset message: start / chunk / complete
AssetMsg(ev, seq, bytes, totalBytes) ==
  [ev |-> ev, canvasId |-> CanvasId, assetId |-> AssetId, seq |-> seq,
   bytes |-> bytes, totalBytes |-> totalBytes]

\* view.slice(offset, Math.min(view.byteLength, offset + chunkSize))
slice(view, offset, chunkSize) ==
  SubSeq(view, offset + 1,
         IF Len(view) < offset + chunkSize THEN Len(view)
                                            ELSE offset + chunkSize)

\* what the peers of the sender get for an emitted asset message
Relayed(m) ==
  CASE m.ev = "asset-upload-chunk" -> { [m EXCEPT !.ev = "asset-chunk"] }
    [] m.ev = "asset-upload-complete" -> { [m EXCEPT !.ev = "asset-complete"] }
    [] OTHER -> {}

\* sendAssetUploadStart / sendAssetUploadChunk / sendAssetUploadComplete
sendAsset(c, m) ==
  IF c \in sockets
    THEN sent' = <<m>> /\ wire' = wire \cup Relayed(m)
    ELSE sent' = <<>> /\ UNCHANGED wire

\* the upload task starts: sendAssetUploadStart
UploadStart(c, bytes) ==
  /\ upload[c].phase = "idle"
  /\ did' = Did(c, "asset-upload-start", NoData)
  /\ upload' = [upload EXCEPT ![c] =
                  [phase |-> "chunks", bytes |-> bytes, offset |-> 0, seq |-> 0]]
  /\ sendAsset(c, AssetMsg("asset-upload-start", 0, <<>>, Len(bytes)))
  /\ UNCHANGED <<rvars, objectsRef, localActionHistory, isLocalActionRef,
                 timers, isConnected, tvars, lvars, imageCache, requestedAssetsRef,
                 incomingAssetChunksRef,
                 savedAsset, env>>

\* one turn of the loop: slice, sendAssetUploadChunk, seq += 1, sleep
UploadChunk(c) ==
  /\ upload[c].phase = "chunks"
  /\ upload[c].offset < Len(upload[c].bytes)
  /\ did' = Did(c, "asset-upload-chunk", NoData)
  /\ sendAsset(c, AssetMsg("asset-upload-chunk", upload[c].seq,
                           slice(upload[c].bytes, upload[c].offset, ChunkSize),
                           0))
  /\ upload' = [upload EXCEPT ![c].offset = @ + ChunkSize, ![c].seq = @ + 1]
  /\ UNCHANGED <<rvars, objectsRef, localActionHistory, isLocalActionRef,
                 timers, isConnected, tvars, lvars, imageCache, requestedAssetsRef,
                 incomingAssetChunksRef,
                 savedAsset, env>>

\* the loop is over: sendAssetUploadComplete
UploadComplete(c) ==
  /\ upload[c].phase = "chunks"
  /\ upload[c].offset >= Len(upload[c].bytes)
  /\ did' = Did(c, "asset-upload-complete", NoData)
  /\ sendAsset(c, AssetMsg("asset-upload-complete", 0, <<>>,
                           Len(upload[c].bytes)))
  /\ upload' = [upload EXCEPT ![c].phase = "done"]
  /\ UNCHANGED <<rvars, objectsRef, localActionHistory, isLocalActionRef,
                 timers, isConnected, tvars, lvars, imageCache, requestedAssetsRef,
                 incomingAssetChunksRef,
                 savedAsset, env>>

\* Map.prototype.set: a new key goes last, a known key keeps its place
MapSet(entries, seq, bytes) ==
  IF \E i \in 1..Len(entries) : entries[i].seq = seq
    THEN [i \in 1..Len(entries) |->
            IF entries[i].seq = seq THEN [seq |-> seq, bytes |-> bytes]
                                    ELSE entries[i]]
    ELSE Append(entries, [seq |-> seq, bytes |-> bytes])

\* socket.on('asset-chunk') and useCanvas onAssetChunk
OnAssetChunk(c, data) ==
  /\ did' = Did(c, "asset-chunk", NoData)
  /\ sent' = <<>>
  /\ IF data.canvasId = CanvasId
       THEN incomingAssetChunksRef' =
              [incomingAssetChunksRef EXCEPT ![c] =
                 [has |-> TRUE,
                  entries |-> MapSet(@.entries, data.seq, data.bytes)]]
       ELSE UNCHANGED incomingAssetChunksRef
  /\ env' = [env EXCEPT !.got = Append(@, data.seq)]
  /\ UNCHANGED <<rvars, objectsRef, localActionHistory, isLocalActionRef,
                 timers, isConnected, tvars, svars, upload>>

\* mutant: the entries are taken in the order of arrival
sortBySeq_arrival(entries) == entries

\* Array.from(chunksMap.entries()).sort((a, b) => a[0] - b[0]): a stable
\* sort by the sign of a[0] - b[0]; the entry at index i lands behind the
\* entries that compare below it and the equal ones that came before it
sortBySeq(entries) ==
  LET n == Len(entries)
      cmp(a, b) == a.seq - b.seq
      rank(i) == Cardinality({ j \in 1..n :
                    \/ cmp(entries[j], entries[i]) < 0
                    \/ cmp(entries[j], entries[i]) = 0 /\ j < i })
  IN [r \in 1..n |-> entries[CHOOSE i \in 1..n : rank(i) = r - 1]]

\* concatArrayBuffers: every chunk copied at the offset where the previous
\* one ended
RECURSIVE concatArrayBuffers(_)
concatArrayBuffers(chunks) ==
  IF chunks = <<>> THEN <<>>
  ELSE Head(chunks) \o concatArrayBuffers(Tail(chunks))

\* socket.on('asset-complete') and useCanvas onAssetComplete: without a map
\* nothing happens; else the map is deleted, the chunks are joined in seq
\* order, and the bytes are saved if the list holds the asset's image object
OnAssetComplete(c, data) ==
  /\ did' = Did(c, "asset-complete", NoData)
  /\ sent' = <<>>
  /\ IF data.canvasId = CanvasId /\ incomingAssetChunksRef[c].has
       THEN LET ordered == sortBySeq(incomingAssetChunksRef[c].entries)
                bytes == concatArrayBuffers(
                           [i \in 1..Len(ordered) |-> ordered[i].bytes])
            IN /\ incomingAssetChunksRef' =
                    [incomingAssetChunksRef EXCEPT ![c] =
                       [has |-> FALSE, entries |-> <<>>]]
               /\ env' = [env EXCEPT !.completed = TRUE,
                                      !.assembled = [has |-> TRUE,
                                                     bytes |-> bytes]]
               /\ IF \E i \in 1..Len(objectsRef[c]) :
                        /\ objectsRef[c][i].type = "image"
                        /\ objectsRef[c][i].id = data.assetId
                    THEN /\ savedAsset' = [savedAsset EXCEPT ![c] =
                                             [has |-> TRUE, bytes |-> bytes]]
                         /\ imageCache' = [imageCache EXCEPT ![c] =
                                             @ \cup {data.assetId}]
                    ELSE UNCHANGED <<savedAsset, imageCache>>
       ELSE /\ env' = [env EXCEPT !.completed = TRUE]
            /\ UNCHANGED <<incomingAssetChunksRef, savedAsset, imageCache>>
  /\ UNCHANGED <<rvars, objectsRef, localActionHistory, isLocalActionRef,
                 timers, isConnected, tvars, lvars, requestedAssetsRef, upload>>

\* the effect of useCanvas that makes the assets of the images available,
\* run to its end for the image object of AssetId: nothing for a cached
\* asset; a stored asset is decoded into the cache; else, if connected and
\* not asked for before, the asset is asked for with sendAssetRequest
EnsureAssets(c) ==
  /\ \E i \in 1..Len(objectsRef[c]) :
        objectsRef[c][i].type = "image" /\ objectsRef[c][i].id = AssetId
  /\ did' = Did(c, "ensure-assets", NoData)
  /\ IF AssetId \in imageCache[c]
       THEN sent' = <<>> /\ UNCHANGED <<imageCache, requestedAssetsRef>>
     ELSE IF savedAsset[c].has
       THEN /\ imageCache' = [imageCache EXCEPT ![c] = @ \cup {AssetId}]
            /\ sent' = <<>>
            /\ UNCHANGED requestedAssetsRef
     ELSE IF isConnected[c] /\ AssetId \notin requestedAssetsRef[c]
       THEN /\ requestedAssetsRef' =
                 [requestedAssetsRef EXCEPT ![c] = @ \cup {AssetId}]
            /\ sent' = IF c \in sockets
                         THEN << AssetMsg("asset-request", 0, <<>>, 0) >>
                         ELSE <<>>
            /\ UNCHANGED imageCache
     ELSE sent' = <<>> /\ UNCHANGED <<imageCache, requestedAssetsRef>>
  /\ UNCHANGED <<rvars, objectsRef, localActionHistory, isLocalActionRef,
                 timers, isConnected, tvars, lvars, savedAsset,
                 incomingAssetChunksRef, upload, env>>

\* no transfer has begun; blob and order are what the transfer will use
InitAssets(blob, order) ==
  /\ incomingAssetChunksRef =
       [c \in Clients |-> [has |-> FALSE, entries |-> <<>>]]
  /\ savedAsset = [c \in Clients |-> [has |-> FALSE, bytes |-> <<>>]]
  /\ upload = [c \in Clients |->
                 [phase |-> "idle", bytes |-> <<>>, offset |-> 0, seq |-> 0]]
  /\ wire = {}
  /\ env = [blob |-> blob, order |-> order, got |-> <<>>, completed |-> FALSE,
            assembled |-> [has |-> FALSE, bytes |-> <<>>]]


(* ----------------------------------------------------------- specifications *)
\* the history variable: every mutation message addressed to a room
MutationEvents ==
  {"object-added", "object-updated", "stroke-added", "object-removed",
   "stroke-removed", "canvas-cleared"}

RecordOp ==
  applied' = IF last'.ev \in MutationEvents /\ last'.canvasId \in RoomIds
               THEN [applied EXCEPT ![last'.canvasId] =
                       Append(@, [ev |-> last'.ev, object |-> last'.object,
                                  ids |-> last'.ids])]
               ELSE applied

\* the hooks right after mount: empty list, empty undo stack, socket not yet
\* connected
InitPeersWith(db) ==
  /\ inProgressStrokes = [c \in Clients |-> EmptyMap]
  /\ remoteEraserPreviews = [c \in Clients |-> EmptyMap]
  /\ remoteCursors = [c \in Clients |-> EmptyMap]
  /\ imageCache = [c \in Clients |-> {}]
  /\ requestedAssetsRef = [c \in Clients |-> {}]
  /\ hasLoadedFromStorageRef = [c \in Clients |-> FALSE]
  /\ loadTask = [c \in Clients |-> "idle"]
  /\ dbObjects = [c \in Clients |-> db]

InitClientsWith(db) ==
  /\ pageCanvasId = FirstCanvasId
  /\ InitPeersWith(db)
  /\ objectsRef = [c \in Clients |-> <<>>]
  /\ localActionHistory = [c \in Clients |-> <<>>]
  /\ isLocalActionRef = [c \in Clients |-> FALSE]
  /\ timers = [c \in Clients |-> {}]
  /\ isConnected = [c \in Clients |-> FALSE]
  /\ did = Msg(0, "none", "", Null, <<>>, NotArray, "", 0)
  /\ sent = <<>>
  /\ up = [c \in Clients |-> <<>>]
  /\ down = [c \in Clients |-> <<>>]
  /\ base = [c \in Clients |->
              [stack |-> <<>>,
               restored |-> [objects |-> <<>>, hlen |-> 0, id |-> ""],
               script |-> <<>>,
               undid |-> [type |-> "", objects |-> <<>>],
               had |-> {}]]
  /\ now = FirstNow
  /\ lastRef = [c \in Clients |-> [k \in RefKinds |-> 0]]
  /\ thr = [c \in Clients |->
             [calls |-> 0, emits |-> [k \in Kinds |-> <<>>],
              sentVals |-> {}, droppedVals |-> {}]]
  /\ InitAssets(<<>>, "forward")

InitPeers == InitPeersWith(<<>>)
InitClients == InitClientsWith(<<>>)

InitRelay(open) ==
  /\ sockets = open
  /\ rooms = [r \in RoomIds |-> {}]
  /\ canvasUsers = [r \in RoomIds |-> {}]
  /\ canvasStates = [r \in RoomIds |-> <<>>]
  /\ last = In("none", 0, "", Null, NotArray)
  /\ out = {}
  /\ applied = [r \in RoomIds |-> <<>>]

\* payloads of the legacy events and of the messages with an empty canvasId
LegacyObjectInputs == { Obj("a", "", 2), Obj("b", "image", 1), Null }
LegacyIdInputs == { IdList(<<"a">>), NotArray }
SomeObject == Obj("a", "stroke", 1)
SomeIds == IdList(<<"a">>)

Join == \E socket \in sockets : JoinCanvas(socket, "r1")
Add == \E socket \in sockets, object \in ObjectInputs :
          ObjectAdded(socket, "r1", object)
Update == \E socket \in sockets, object \in ObjectInputs :
             ObjectUpdated(socket, "r1", object)
LegacyAdd == \E socket \in sockets, stroke \in LegacyObjectInputs :
                StrokeAdded(socket, "r1", stroke)
Remove == \E socket \in sockets, objectIds \in IdInputs :
             ObjectRemoved(socket, "r1", objectIds)
LegacyRemove == \E socket \in sockets, strokeIds \in LegacyIdInputs :
                   StrokeRemoved(socket, "r1", strokeIds)
Clear == \E socket \in sockets : CanvasCleared(socket, "r1")
Leave == \E socket \in sockets : Disconnect(socket)
\* every event with an empty (falsy) canvasId
NoCanvasId ==
  \E socket \in sockets :
     \/ JoinCanvas(socket, "")
     \/ ObjectAdded(socket, "", SomeObject)
     \/ ObjectUpdated(socket, "", SomeObject)
     \/ StrokeAdded(socket, "", SomeObject)
     \/ ObjectRemoved(socket, "", SomeIds)
     \/ StrokeRemoved(socket, "", SomeIds)
     \/ CanvasCleared(socket, "")

Init == InitRelay(1..NConns) /\ InitClients

Next ==
  \/ Join /\ UNCHANGED <<xvars, applied, cvars>>
  \/ Add /\ UNCHANGED <<xvars, applied, cvars>>
  \/ Update /\ UNCHANGED <<xvars, applied, cvars>>
  \/ LegacyAdd /\ UNCHANGED <<xvars, applied, cvars>>
  \/ Remove /\ UNCHANGED <<xvars, applied, cvars>>
  \/ LegacyRemove /\ UNCHANGED <<xvars, applied, cvars>>
  \/ Clear /\ UNCHANGED <<xvars, applied, cvars>>
  \/ Leave /\ UNCHANGED <<xvars, applied, cvars>>
  \/ NoCanvasId /\ UNCHANGED <<xvars, applied, cvars>>

Spec == Init /\ [][Next]_vars

(* the capacity specification: one room and one connection more than it     *)
(* admits.  It starts in the states the relay is in once all but one of the *)
(* places are taken: CapPreJoined connections, any of them, have joined.    *)
CapPreJoined == MAX_USERS_PER_SESSION - 1

InitCap ==
  \E members \in SUBSET (1..NCapConns) :
     /\ Cardinality(members) = CapPreJoined
     /\ \E socket \in members :
           /\ sockets = 1..NCapConns
           /\ rooms = [r \in RoomIds |-> IF r = "r1" THEN members ELSE {}]
           /\ canvasUsers = [r \in RoomIds |-> IF r = "r1" THEN members ELSE {}]
           /\ canvasStates = [r \in RoomIds |-> <<>>]
           /\ last = In("join-canvas", socket, "r1", Null, NotArray)
           /\ out = { Msg(socket, "canvas-state", "r1", Null, <<>>, NotArray,
                          "", 0) }
           /\ applied = [r \in RoomIds |-> <<>>]
           /\ InitClients

CapJoin == \E socket \in sockets : JoinCanvas(socket, "r1")
\* the broadcasts of this specification: connection 1 clears the canvas
CapClear == CanvasCleared(1, "r1")
CapLeave == \E socket \in sockets :
              /\ Cardinality(sockets) > NCapConns - MaxCapDisconnects
              /\ Disconnect(socket)

NextCap ==
  \/ CapJoin /\ UNCHANGED <<xvars, applied, cvars>>
  \/ CapClear /\ UNCHANGED <<xvars, applied, cvars>>
  \/ CapLeave /\ UNCHANGED <<xvars, applied, cvars>>

SpecCap == InitCap /\ [][NextCap]_vars

(* the snapshot-fold specification: the mutation messages are recorded *)
FoldObjectInputs ==
  { Obj("a", "stroke", 1), Obj("a", "", 2), Obj("b", "image", 1), Null }
FoldIdInputs == { IdList(<<"a">>), IdList(<<"b", "a">>) }

InitFold == InitRelay(FoldSockets) /\ InitClients

CanRecord == Len(applied["r1"]) < MaxOps

FoldJoin == \E socket \in sockets : JoinCanvas(socket, "r1")
FoldAdd == \E socket \in sockets, object \in FoldObjectInputs :
             CanRecord /\ ObjectAdded(socket, "r1", object)
FoldUpdate == \E socket \in sockets, object \in FoldObjectInputs :
                CanRecord /\ ObjectUpdated(socket, "r1", object)
FoldLegacyAdd == \E socket \in sockets :
                   CanRecord /\ StrokeAdded(socket, "r1", Obj("b", "", 1))
FoldRemove == \E socket \in sockets, objectIds \in FoldIdInputs :
                CanRecord /\ ObjectRemoved(socket, "r1", objectIds)
FoldLegacyRemove == \E socket \in sockets :
                      CanRecord /\ StrokeRemoved(socket, "r1", IdList(<<"b">>))
FoldClear == \E socket \in sockets : CanRecord /\ CanvasCleared(socket, "r1")

NextFold ==
  \/ FoldJoin /\ RecordOp /\ UNCHANGED <<cvars, xvars>>
  \/ FoldAdd /\ RecordOp /\ UNCHANGED <<cvars, xvars>>
  \/ FoldUpdate /\ RecordOp /\ UNCHANGED <<cvars, xvars>>
  \/ FoldLegacyAdd /\ RecordOp /\ UNCHANGED <<cvars, xvars>>
  \/ FoldRemove /\ RecordOp /\ UNCHANGED <<cvars, xvars>>
  \/ FoldLegacyRemove /\ RecordOp /\ UNCHANGED <<cvars, xvars>>
  \/ FoldClear /\ RecordOp /\ UNCHANGED <<cvars, xvars>>

SpecFold == InitFold /\ [][NextFold]_vars

(* the two-room specification: two connections join, edit and clear both *)
(* rooms in any interleaving                                              *)
RoomsObjectInputs == { Obj("a", "stroke", 1), Obj("b", "image", 1), Null }
RoomsUpdateInputs == { Obj("a", "stroke", 2) }
RoomsIdInputs == { IdList(<<"a">>), NotArray }

RoomsJoin == \E socket \in sockets, canvasId \in RoomIds :
                JoinCanvas(socket, canvasId)
RoomsAdd == \E socket \in sockets, canvasId \in RoomIds,
               object \in RoomsObjectInputs :
               ObjectAdded(socket, canvasId, object)
RoomsUpdate == \E socket \in sockets, canvasId \in RoomIds,
                  object \in RoomsUpdateInputs :
                  ObjectUpdated(socket, canvasId, object)
RoomsRemove == \E socket \in sockets, canvasId \in RoomIds,
                  objectIds \in RoomsIdInputs :
                  ObjectRemoved(socket, canvasId, objectIds)
RoomsClear == \E socket \in sockets, canvasId \in RoomIds :
                 CanvasCleared(socket, canvasId)

NextRooms ==
  \/ RoomsJoin /\ UNCHANGED <<xvars, applied, cvars>>
  \/ RoomsAdd /\ UNCHANGED <<xvars, applied, cvars>>
  \/ RoomsUpdate /\ UNCHANGED <<xvars, applied, cvars>>
  \/ RoomsRemove /\ UNCHANGED <<xvars, applied, cvars>>
  \/ RoomsClear /\ UNCHANGED <<xvars, applied, cvars>>
  \/ Leave /\ UNCHANGED <<xvars, applied, cvars>>

SpecRooms == InitFold /\ [][NextRooms]_vars

(* the message-shape specification: two connections send well-formed       *)
(* messages, messages without canvasId and messages without payload        *)
ShapeEvents == {"join-canvas", "object-added", "object-removed"}

NextShape ==
  \/ RoomsJoin /\ UNCHANGED <<xvars, applied, cvars>>
  \/ RoomsAdd /\ UNCHANGED <<xvars, applied, cvars>>
  \/ RoomsRemove /\ UNCHANGED <<xvars, applied, cvars>>
  \/ NoCanvasId /\ UNCHANGED <<xvars, applied, cvars>>
  \/ /\ \E socket \in sockets, ev \in ShapeEvents : NullPayload(socket, ev)
     /\ UNCHANGED <<xvars, applied, cvars>>

SpecShape == InitFold /\ [][NextShape]_vars

(* the presence specification: members and a non-member stream ephemeral *)
(* messages while the room's object list is being edited                  *)
PreviewCopy == Obj("a", "stroke", 0)

InitEph == InitRelay(FoldSockets) /\ InitClients

NextEph ==
  \/ /\ \E socket \in sockets : JoinCanvas(socket, "r1")
     /\ UNCHANGED <<xvars, applied, cvars>>
  \/ /\ \E socket \in sockets :
           ObjectAdded(socket, "r1", Obj("a", "stroke", 1))
     /\ UNCHANGED <<xvars, applied, cvars>>
  \/ /\ \E socket \in sockets : CanvasCleared(socket, "r1")
     /\ UNCHANGED <<xvars, applied, cvars>>
  \/ /\ \E socket \in sockets, canvasId \in {"r1", ""},
           position \in {Position, Null} :
           CursorUpdate(socket, canvasId, position)
     /\ UNCHANGED <<xvars, applied, cvars>>
  \/ /\ \E socket \in sockets, canvasId \in {"r1", ""} :
           CursorStop(socket, canvasId)
     /\ UNCHANGED <<xvars, applied, cvars>>
  \/ /\ \E socket \in sockets, canvasId \in {"r1", ""}, id \in {"a", ""},
           stroke \in {PartialStroke, Null} :
           StrokeProgress(socket, canvasId, id, stroke)
     /\ UNCHANGED <<xvars, applied, cvars>>
  \/ /\ \E socket \in sockets, canvasId \in {"r1", ""}, id \in {"a", ""} :
           StrokeProgressEnd(socket, canvasId, id)
     /\ UNCHANGED <<xvars, applied, cvars>>
  \/ /\ \E socket \in sockets, canvasId \in {"r1", ""},
           objects \in {ObjArray(TRUE, <<PreviewCopy>>), ObjArray(FALSE, <<>>)} :
           ObjectMovePreview(socket, canvasId, objects)
     /\ UNCHANGED <<xvars, applied, cvars>>
  \/ /\ \E socket \in sockets, canvasId \in {"r1", ""} :
           ObjectMovePreviewEnd(socket, canvasId)
     /\ UNCHANGED <<xvars, applied, cvars>>
  \/ /\ \E socket \in sockets, canvasId \in {"r1", ""},
           objectIds \in {IdList(<<"a">>), NotArray} :
           EraserPreview(socket, canvasId, objectIds)
     /\ UNCHANGED <<xvars, applied, cvars>>
  \/ /\ \E socket \in sockets, canvasId \in {"r1", ""} :
           EraserPreviewEnd(socket, canvasId)
     /\ UNCHANGED <<xvars, applied, cvars>>

SpecEph == InitEph /\ [][NextEph]_vars

(* the client specification: tab 1, with the relay and its peers as the    *)
(* environment that delivers any message the relay can send                *)
\* ids in a list of objects, in an undo stack, in a message
ObjIds(objs) == { objs[i].id : i \in 1..Len(objs) }
EntryIds(h) ==
  UNION { IF h[i].type = "add" THEN {h[i].object.id} ELSE ObjIds(h[i].objects)
          : i \in 1..Len(h) }
MsgIds(q) ==
  UNION { {q[i].object.id} \cup { q[i].ids.ids[j] : j \in 1..Len(q[i].ids.ids) }
          \cup (IF "objects" \in DOMAIN q[i] THEN ObjIds(q[i].objects) ELSE {})
          : i \in 1..Len(q) }
\* uuidv4() returns an id that is nowhere in the system
InUse ==
  UNION { ObjIds(objectsRef[c]) \cup EntryIds(localActionHistory[c])
          \cup MsgIds(up[c]) \cup MsgIds(down[c]) : c \in Clients }
  \cup UNION { ObjIds(canvasStates[r]) : r \in RoomIds }

\* the history variable base: per tab, the frames of the strokes drawn and
\* not yet undone since the last other event (list and stack depth before
\* the stroke), the frame the last undo popped, the last local operations,
\* the entry the last undo popped, and the ids in the list before the event
NoFrame == [objects |-> <<>>, hlen |-> 0, id |-> ""]
NoEntry == [type |-> "", objects |-> <<>>]
NoBase ==
  [stack |-> <<>>, restored |-> NoFrame, script |-> <<>>, undid |-> NoEntry,
   had |-> {}]
Last4(q) == IF Len(q) > 4 THEN SubSeq(q, Len(q) - 3, Len(q)) ELSE q
Track ==
  base' =
    IF did'.to \notin Clients \/ did'.ev = "timeout" THEN base
    ELSE LET c == did'.to
             b == base[c]
             h == localActionHistory[c]
             frames ==
               IF did'.ev = "draw"
                 THEN [NoBase EXCEPT
                         !.stack = Append(b.stack,
                                     [objects |-> objectsRef[c],
                                      hlen |-> Len(h),
                                      id |-> did'.object.id]),
                         !.restored = b.restored,
                         !.script = Last4(Append(b.script,
                                      [op |-> "add", id |-> did'.object.id]))]
               ELSE IF did'.ev = "undo" /\ b.stack # <<>>
                 THEN [NoBase EXCEPT
                         !.stack = SubSeq(b.stack, 1, Len(b.stack) - 1),
                         !.restored = b.stack[Len(b.stack)],
                         !.script = Last4(Append(b.script,
                                      [op |-> "undo",
                                       id |-> b.stack[Len(b.stack)].id]))]
               ELSE NoBase
         IN [base EXCEPT ![c] =
               [frames EXCEPT
                  !.undid = IF did'.ev = "undo" /\ h # <<>>
                              THEN h[Len(h)] ELSE NoEntry,
                  !.had = ObjIds(objectsRef[c])]]

\* ids of the strokes of tab 1, an object of a peer, and what the relay can
\* deliver to a member of the room: well-formed messages for its canvas
LocalIds == {"a", "c"}
PeerObject == Obj("b", "image", 1)
Deliveries ==
  { Msg(1, "object-added", CanvasId, o, <<>>, NotArray, "", 0)
    : o \in {PeerObject, Obj("a", "stroke", 1)} }
  \cup { Msg(1, "object-removed", CanvasId, Null, <<>>, IdList(<<i>>), "", 0)
         : i \in {"a", "b"} }
  \cup { Msg(1, "canvas-cleared", CanvasId, Null, <<>>, NotArray, "", 0) }
  \cup { Msg(1, "canvas-state", CanvasId, Null, o, NotArray, "", 0)
         : o \in { <<>>, <<Obj("a", "stroke", 1), PeerObject>> } }
  \cup { Msg(1, "error", "", Null, <<>>, NotArray, InvalidObjectData, 0) }

\* the listener that handles a delivered message
Receive(c, data) ==
  CASE data.ev = "canvas-state" -> OnCanvasState(c, data)
    [] data.ev = "object-added" -> OnObjectAdded(c, data)
    [] data.ev = "object-removed" -> OnObjectRemoved(c, data)
    [] data.ev = "canvas-cleared" -> OnCanvasCleared(c, data)
    [] data.ev = "object-updated" -> OnObjectUpdated(c, data)
    [] data.ev = "error" -> OnError(c, data)
    [] data.ev = "cursor-update" -> OnCursorUpdate(c, data)
    [] data.ev = "cursor-stop" -> OnCursorStop(c, data)
    [] data.ev = "stroke-progress" -> OnStrokeProgress(c, data)
    [] data.ev = "stroke-progress-end" -> OnStrokeProgressEnd(c, data)
    [] data.ev = "eraser-preview" -> OnEraserPreview(c, data)
    [] data.ev = "eraser-preview-end" -> OnEraserPreviewEnd(c, data)

\* the relay answers a join with the snapshot before it relays anything else
\* to that socket, so a tab's listeners run for the first time on a snapshot
SnapshotFirst(c, data) ==
  data.ev = "canvas-state" \/ hasLoadedFromStorageRef[c]

InitClient == InitRelay({}) /\ InitClients

CanPush(c) == Len(localActionHistory[c]) < MaxHistory

NextClient ==
  \/ Connect(1) /\ Track /\ UNCHANGED <<xvars, applied, up, down>>
  \/ Drop(1) /\ Track /\ UNCHANGED <<xvars, applied, up, down>>
  \/ /\ \E data \in Deliveries : SnapshotFirst(1, data) /\ Receive(1, data)
     /\ Track /\ UNCHANGED <<yvars, applied, up, down>>
  \/ TimerFires(1) /\ Track /\ UNCHANGED <<xvars, applied, up, down>>
  \/ Tick(ECHO_TIMEOUT) /\ Track /\ UNCHANGED <<xvars, applied, up, down>>
  \/ /\ \E id \in LocalIds \ InUse : CanPush(1) /\ DrawStroke(1, id)
     /\ Track /\ UNCHANGED <<xvars, applied, up, down>>
  \/ /\ \E i \in 1..Len(objectsRef[1]) :
           CanPush(1) /\ Erase(1, <<objectsRef[1][i].id>>)
     /\ Track /\ UNCHANGED <<xvars, applied, up, down>>
  \/ /\ CanPush(1) /\ ClearCanvas(1)
     /\ Track /\ UNCHANGED <<yvars, uvars, applied, up, down>>
  \/ Undo(1) /\ Track /\ UNCHANGED <<xvars, applied, up, down>>

SpecClient == InitClient /\ [][NextClient]_vars

(* the synchronisation specification: the tabs, the relay and, between     *)
(* each tab and the relay, a reliable ordered channel in each direction    *)
\* the events a tab listens to in this model
Listened ==
  {"canvas-state", "object-added", "object-removed", "canvas-cleared", "error"}

\* what a relay handler's emits put on the channel to tab r
Delivered(msgs, r) ==
  LET mine == { m \in msgs : m.to = r /\ m.ev \in Listened } IN
  IF mine = {} THEN <<>> ELSE << CHOOSE m \in mine : TRUE >>

\* the relay handler of a message from connection c
Handle(c, m) ==
  CASE m.ev = "join-canvas" -> JoinCanvas(c, m.canvasId)
    [] m.ev = "object-added" -> ObjectAdded(c, m.canvasId, m.object)
    [] m.ev = "object-removed" -> ObjectRemoved(c, m.canvasId, m.ids)
    [] m.ev = "canvas-cleared" -> CanvasCleared(c, m.canvasId)

\* the page shows the canvas once the first snapshot has arrived
Ready(c) ==
  /\ c \in rooms[CanvasId]
  /\ \A i \in 1..Len(down[c]) : down[c][i].ev # "canvas-state"

\* a local operation of tab c puts its messages on the channel
LocalSent(c) ==
  /\ Ready(c) /\ CanPush(c) /\ Len(up[c]) < MaxInFlight
  /\ up' = [up EXCEPT ![c] = @ \o sent']
Local(c) == LocalSent(c) /\ UNCHANGED <<xvars, applied, down, base>>

InitSync == InitRelay({}) /\ InitClients

NextSync ==
  \/ \E c \in Clients :
        /\ Connect(c)
        /\ up' = [up EXCEPT ![c] = sent']
        /\ UNCHANGED <<xvars, applied, down, base>>
  \/ \E c \in Clients :
        /\ up[c] # <<>>
        /\ Handle(c, Head(up[c]))
        /\ up' = [up EXCEPT ![c] = Tail(@)]
        /\ down' = [r \in Clients |-> down[r] \o Delivered(out', r)]
        /\ UNCHANGED <<xvars, applied, objectsRef, localActionHistory,
                       isLocalActionRef, timers, isConnected, did, sent, base>>
  \/ \E c \in Clients :
        /\ down[c] # <<>>
        /\ Receive(c, Head(down[c]))
        /\ down' = [down EXCEPT ![c] = Tail(@)]
        /\ UNCHANGED <<yvars, applied, up, base>>
  \/ \E c \in Clients : TimerFires(c) /\ UNCHANGED <<xvars, applied, up, down, base>>
  \/ Tick(ECHO_TIMEOUT) /\ UNCHANGED <<xvars, applied, up, down, base>>
  \/ \E c \in Clients, id \in LocalIds \ InUse : DrawStroke(c, id) /\ Local(c)
  \/ \E c \in Clients : \E i \in 1..Len(objectsRef[c]) :
        Erase(c, <<objectsRef[c][i].id>>) /\ Local(c)
  \/ \E c \in Clients :
        /\ objectsRef[c] # <<>> /\ ClearCanvas(c) /\ LocalSent(c)
        /\ UNCHANGED <<yvars, uvars, applied, down, base>>

SpecSync == InitSync /\ [][NextSync]_vars

(* the error-reply specification: tab 1 and the relay with a channel in    *)
(* each direction; the peer on connection 2 removes objects and adds back  *)
(* objects that tab 1 has erased, as a peer does that undoes its own erase *)
InitErr ==
  /\ InitClients
  /\ sockets = {2}
  /\ rooms = [r \in RoomIds |-> IF r = FirstCanvasId THEN {2} ELSE {}]
  /\ canvasUsers = [r \in RoomIds |-> IF r = FirstCanvasId THEN {2} ELSE {}]
  /\ canvasStates = [r \in RoomIds |-> <<>>]
  /\ last = In("join-canvas", 2, FirstCanvasId, Null, NotArray)
  /\ out = { Msg(2, "canvas-state", FirstCanvasId, Null, <<>>, NotArray, "", 0) }
  /\ applied = [r \in RoomIds |-> <<>>]

\* the objects in the remove entries of the undo stack of tab c
Erased(c) ==
  UNION { IF localActionHistory[c][i].type = "remove"
            THEN { localActionHistory[c][i].objects[j]
                   : j \in 1..Len(localActionHistory[c][i].objects) }
            ELSE {}
          : i \in 1..Len(localActionHistory[c]) }

ErrPeer ==
  \/ \E object \in Erased(1) :
        /\ findIndex(canvasStates[CanvasId], object.id) = 0
        /\ ObjectAdded(2, CanvasId, object)
  \/ \E i \in 1..Len(canvasStates[CanvasId]) :
        ObjectRemoved(2, CanvasId, IdList(<<canvasStates[CanvasId][i].id>>))

ErrLocal ==
  /\ Ready(1) /\ Len(up[1]) < MaxInFlight
  /\ up' = [up EXCEPT ![1] = @ \o sent']
  /\ UNCHANGED <<xvars, applied, down, base>>

NextErr ==
  \/ /\ Connect(1)
     /\ up' = [up EXCEPT ![1] = sent']
     /\ UNCHANGED <<xvars, applied, down, base>>
  \/ /\ up[1] # <<>>
     /\ Handle(1, Head(up[1]))
     /\ up' = [up EXCEPT ![1] = Tail(@)]
     /\ down' = [down EXCEPT ![1] = @ \o Delivered(out', 1)]
     /\ UNCHANGED <<xvars, applied, objectsRef, localActionHistory,
                    isLocalActionRef, timers, isConnected, did, sent, base>>
  \/ /\ Len(down[1]) < MaxInFlight
     /\ ErrPeer
     /\ down' = [down EXCEPT ![1] = @ \o Delivered(out', 1)]
     /\ UNCHANGED <<xvars, applied, objectsRef, localActionHistory,
                    isLocalActionRef, timers, isConnected, did, sent, up, base>>
  \/ /\ down[1] # <<>>
     /\ Receive(1, Head(down[1]))
     /\ down' = [down EXCEPT ![1] = Tail(@)]
     /\ UNCHANGED <<yvars, applied, up, base>>
  \/ TimerFires(1) /\ UNCHANGED <<xvars, applied, up, down, base>>
  \/ Tick(ECHO_TIMEOUT) /\ UNCHANGED <<xvars, applied, up, down, base>>
  \/ \E id \in LocalIds \ InUse : CanPush(1) /\ DrawStroke(1, id) /\ ErrLocal
  \/ \E i \in 1..Len(objectsRef[1]) :
        CanPush(1) /\ Erase(1, <<objectsRef[1][i].id>>) /\ ErrLocal
  \/ Undo(1) /\ ErrLocal

SpecErr == InitErr /\ [][NextErr]_vars

(* the apply specification: the relay and tab 1 start from the same list;  *)
(* the peers' ops reach the relay, whose broadcasts tab 1 applies in the   *)
(* order of the relay                                                      *)
ApplyLists ==
  { <<>>, <<Obj("a", "stroke", 1)>>, <<Obj("b", "image", 1)>>,
    <<Obj("a", "stroke", 1), Obj("b", "image", 1)>>,
    <<Obj("b", "image", 1), Obj("a", "stroke", 1)>> }
ApplyAdds == { Obj("a", "stroke", 1), Obj("b", "image", 1) }
ApplyUpdates == { Obj("a", "stroke", 2), Obj("b", "image", 2) }
ApplyRemoves == { IdList(<<"a">>), IdList(<<"b", "a">>) }

InitApply ==
  /\ \E L \in ApplyLists :
        /\ canvasStates = [r \in RoomIds |-> IF r = FirstCanvasId THEN L ELSE <<>>]
        /\ objectsRef = [c \in Clients |-> IF c = 1 THEN L ELSE <<>>]
  /\ sockets = {1, 2}
  /\ rooms = [r \in RoomIds |-> IF r = FirstCanvasId THEN {1, 2} ELSE {}]
  /\ canvasUsers = [r \in RoomIds |-> IF r = FirstCanvasId THEN {1, 2} ELSE {}]
  /\ last = In("none", 0, "", Null, NotArray)
  /\ out = {}
  /\ applied = [r \in RoomIds |-> <<>>]
  /\ pageCanvasId = FirstCanvasId
  /\ InitPeers
  /\ localActionHistory = [c \in Clients |-> <<>>]
  /\ isLocalActionRef = [c \in Clients |-> FALSE]
  /\ timers = [c \in Clients |-> {}]
  /\ isConnected = [c \in Clients |-> c = 1]
  /\ did = Msg(0, "none", "", Null, <<>>, NotArray, "", 0)
  /\ sent = <<>>
  /\ up = [c \in Clients |-> <<>>]
  /\ down = [c \in Clients |-> <<>>]
  /\ base = [c \in Clients |-> NoBase]
  /\ now = FirstNow
  /\ lastRef = [c \in Clients |-> [k \in RefKinds |-> 0]]
  /\ thr = [c \in Clients |->
             [calls |-> 0, emits |-> [k \in Kinds |-> <<>>],
              sentVals |-> {}, droppedVals |-> {}]]
  /\ InitAssets(<<>>, "forward")

\* the op of a relay handler's emits that tab r listens to
AppliedEvents ==
  {"object-added", "object-updated", "object-removed", "canvas-cleared"}
DeliveredOp(msgs, r) ==
  LET mine == { m \in msgs : m.to = r /\ m.ev \in AppliedEvents } IN
  IF mine = {} THEN <<>> ELSE << CHOOSE m \in mine : TRUE >>

ApplyChannel ==
  /\ Len(down[1]) < MaxInFlight
  /\ down' = [down EXCEPT ![1] = @ \o DeliveredOp(out', 1)]
  /\ UNCHANGED <<xvars, applied, objectsRef, localActionHistory,
                 isLocalActionRef, timers, isConnected, did, sent, up, base>>

NextApply ==
  \/ \E object \in ApplyAdds : ObjectAdded(2, CanvasId, object) /\ ApplyChannel
  \/ \E object \in ApplyUpdates :
        ObjectUpdated(2, CanvasId, object) /\ ApplyChannel
  \/ \E objectIds \in ApplyRemoves :
        ObjectRemoved(2, CanvasId, objectIds) /\ ApplyChannel
  \/ CanvasCleared(2, CanvasId) /\ ApplyChannel
  \/ /\ down[1] # <<>>
     /\ Receive(1, Head(down[1]))
     /\ down' = [down EXCEPT ![1] = Tail(@)]
     /\ UNCHANGED <<yvars, applied, up, base>>

SpecApply == InitApply /\ [][NextApply]_vars

(* the throttle specification: one tab calls the throttled senders while   *)
(* time passes and the connection comes and goes                           *)
\* history: the call is counted; an emit is logged with its time and its
\* value; the value of a call made less than THROTTLE after the last emit
\* of its kind is logged as dropped
TrackCalls ==
  LET c == did'.to
      k == did'.ev
      e == thr[c].emits[k]
  IN thr' = [thr EXCEPT ![c] =
       [calls |-> @.calls + 1,
        emits |-> IF sent' # <<>>
                    THEN [@.emits EXCEPT ![k] = Append(@, now)]
                    ELSE @.emits,
        sentVals |-> @.sentVals
                       \cup { sent'[i].object.v : i \in 1..Len(sent') },
        droppedVals |-> IF e # <<>> /\ now - e[Len(e)] < THROTTLE
                          THEN @.droppedVals \cup {did'.object.v}
                          ELSE @.droppedVals]]

CanCall(c) == thr[c].calls < MaxCalls
Payload(c, type) == Obj("", type, thr[c].calls + 1)

NextThrottle ==
  \/ Connect(1) /\ UNCHANGED <<xvars, applied, up, down, base>>
  \/ Drop(1) /\ UNCHANGED <<xvars, applied, up, down, base>>
  \/ \E d \in {20, 30} :
        /\ now + d <= FirstNow + MaxElapsed
        /\ Tick(d)
        /\ now' = now + d
        /\ UNCHANGED <<lastRef, thr, avars, pvars, uvars, applied, up, down, base>>
  \/ /\ CanCall(1) /\ sendCursorUpdate(1, Payload(1, "position"))
     /\ TrackCalls /\ UNCHANGED <<pvars, uvars, applied, up, down, base>>
  \/ /\ CanCall(1) /\ sendStrokeProgress(1, Payload(1, "partial"))
     /\ TrackCalls /\ UNCHANGED <<pvars, uvars, applied, up, down, base>>
  \/ /\ CanCall(1) /\ sendObjectMovePreview(1, Payload(1, "moved"))
     /\ TrackCalls /\ UNCHANGED <<pvars, uvars, applied, up, down, base>>
  \/ /\ CanCall(1) /\ sendEraserPreview(1, Payload(1, "erased"))
     /\ TrackCalls /\ UNCHANGED <<pvars, uvars, applied, up, down, base>>

SpecThrottle == InitClient /\ [][NextThrottle]_vars

(* the asset specification: tab 1 uploads a blob, its chunks reach tab 2   *)
(* in the order env.order names, and the complete message after them       *)
ChunkCounts == {1, 2, 3, 50}
\* blobs of k chunks whose last chunk is full or holds one byte
BlobLens ==
  { ChunkSize * k - r : k \in ChunkCounts, r \in {0, ChunkSize - 1} }
NumChunks(n) == (n + ChunkSize - 1) \div ChunkSize
Orders == {"any", "forward", "reverse"}

InitAsset ==
  /\ InitRelay({1, 2})
  /\ pageCanvasId = FirstCanvasId
  /\ InitPeers
  /\ objectsRef \in { [c \in Clients |-> <<ImageObject>>],
                      [c \in Clients |-> IF c = 1 THEN <<ImageObject>>
                                                  ELSE <<>>] }
  /\ localActionHistory = [c \in Clients |-> <<>>]
  /\ isLocalActionRef = [c \in Clients |-> FALSE]
  /\ timers = [c \in Clients |-> {}]
  /\ isConnected = [c \in Clients |-> TRUE]
  /\ did = Msg(0, "none", "", Null, <<>>, NotArray, "", 0)
  /\ sent = <<>>
  /\ up = [c \in Clients |-> <<>>]
  /\ down = [c \in Clients |-> <<>>]
  /\ base = [c \in Clients |-> NoBase]
  /\ now = FirstNow
  /\ lastRef = [c \in Clients |-> [k \in RefKinds |-> 0]]
  /\ thr = [c \in Clients |->
             [calls |-> 0, emits |-> [k \in Kinds |-> <<>>],
              sentVals |-> {}, droppedVals |-> {}]]
  /\ \E n \in BlobLens, order \in Orders :
        /\ order = "any" => NumChunks(n) <= MaxAnyK
        /\ InitAssets(Blob(n), order)

\* the chunk messages on the wire and the one the order lets through next
ChunksOnWire == { m \in wire : m.ev = "asset-chunk" }
MayDeliver(m) ==
  CASE env.order = "any" -> TRUE
    [] env.order = "forward" -> \A o \in ChunksOnWire : m.seq <= o.seq
    [] env.order = "reverse" ->
         /\ upload[1].phase = "done"
         /\ \A o \in ChunksOnWire : m.seq >= o.seq

NextAsset ==
  \/ UploadStart(1, env.blob) /\ UNCHANGED <<pvars, uvars, applied, up, down, base>>
  \/ UploadChunk(1) /\ UNCHANGED <<pvars, uvars, applied, up, down, base>>
  \/ UploadComplete(1) /\ UNCHANGED <<pvars, uvars, applied, up, down, base>>
  \/ \E m \in ChunksOnWire :
        /\ MayDeliver(m)
        /\ OnAssetChunk(2, m)
        /\ wire' = wire \ {m}
        /\ UNCHANGED <<pvars, uvars, applied, up, down, base>>
  \/ \E m \in wire :
        /\ m.ev = "asset-complete"
        /\ ChunksOnWire = {}
        /\ OnAssetComplete(2, m)
        /\ wire' = wire \ {m}
        /\ UNCHANGED <<pvars, uvars, applied, up, down, base>>

SpecAsset == InitAsset /\ [][NextAsset]_vars

(* the lossy transfer: as above for the blobs of at most MaxAnyK chunks,   *)
(* and a chunk on its way to tab 2 may be lost                             *)
InitAssetLossy ==
  /\ InitAsset
  /\ NumChunks(Len(env.blob)) <= MaxAnyK

ChunkLost ==
  /\ \E m \in ChunksOnWire : wire' = wire \ {m}
  /\ did' = Did(2, "chunk-lost", NoData)
  /\ sent' = <<>>
  /\ UNCHANGED <<rvars, objectsRef, localActionHistory, isLocalActionRef,
                 timers, isConnected, tvars, lvars, imageCache, requestedAssetsRef,
                 incomingAssetChunksRef,
                 savedAsset, upload, env>>

NextAssetLossy ==
  \/ NextAsset
  \/ ChunkLost /\ UNCHANGED <<pvars, uvars, applied, up, down, base>>

SpecAssetLossy == InitAssetLossy /\ [][NextAssetLossy]_vars

(* the upload specification: the upload task of tab 1 runs for a blob of   *)
(* at most MaxAnyK chunks while the connection of the tab comes and goes;  *)
(* the image is pasted, and its task starts, while the tab is connected;   *)
(* up[1] logs what the tab puts on the channel                             *)
Emitted(c) ==
  /\ up' = [up EXCEPT ![c] = @ \o sent']
  /\ UNCHANGED <<pvars, uvars, applied, down, base>>

NextUpload ==
  \/ isConnected[1] /\ UploadStart(1, env.blob) /\ Emitted(1)
  \/ UploadChunk(1) /\ Emitted(1)
  \/ UploadComplete(1) /\ Emitted(1)
  \/ Drop(1) /\ UNCHANGED <<xvars, applied, up, down, base>>
  \/ Connect(1) /\ UNCHANGED <<xvars, applied, up, down, base>>

SpecUpload == InitAssetLossy /\ [][NextUpload]_vars

(* the request specification: tab 1 is shown an image of a peer, by the    *)
(* snapshot or by an add, and asks for its asset; while the request is on  *)
(* the wire its answer comes in, two chunks in either order and then       *)
(* complete; a peer clears the canvas and the image is added again         *)
RequestDeliveries ==
  { Msg(1, "object-added", CanvasId, ImageObject, <<>>, NotArray, "", 0),
    Msg(1, "canvas-cleared", CanvasId, Null, <<>>, NotArray, "", 0) }
  \cup { Msg(1, "canvas-state", CanvasId, Null, o, NotArray, "", 0)
         : o \in { <<>>, <<ImageObject>> } }

AssetRequest == AssetMsg("asset-request", 0, <<>>, 0)
AnswerChunks ==
  { AssetMsg("asset-chunk", 0, <<1, 2>>, 0),
    AssetMsg("asset-chunk", 1, <<3>>, 0) }
AnswerComplete == AssetMsg("asset-complete", 0, <<>>, 3)
AnsweredSeqs == { env.got[i] : i \in 1..Len(env.got) }

NextRequest ==
  \/ Connect(1) /\ UNCHANGED <<xvars, applied, up, down, base>>
  \/ Drop(1) /\ UNCHANGED <<xvars, applied, up, down, base>>
  \/ /\ \E data \in RequestDeliveries : Receive(1, data)
     /\ UNCHANGED <<yvars, applied, up, down, base>>
  \/ TimerFires(1) /\ UNCHANGED <<xvars, applied, up, down, base>>
  \/ Tick(ECHO_TIMEOUT) /\ UNCHANGED <<xvars, applied, up, down, base>>
  \/ /\ EnsureAssets(1)
     /\ wire' = wire \cup { sent'[i] : i \in 1..Len(sent') }
     /\ UNCHANGED <<pvars, uvars, applied, up, down, base>>
  \/ /\ 1 \in sockets /\ AssetRequest \in wire
     /\ \E data \in AnswerChunks :
          data.seq \notin AnsweredSeqs /\ OnAssetChunk(1, data)
     /\ UNCHANGED <<wire, pvars, uvars, applied, up, down, base>>
  \/ /\ 1 \in sockets /\ AssetRequest \in wire
     /\ AnsweredSeqs = { data.seq : data \in AnswerChunks }
     /\ OnAssetComplete(1, AnswerComplete)
     /\ wire' = wire \ {AssetRequest}
     /\ UNCHANGED <<pvars, uvars, applied, up, down, base>>

SpecRequest == InitClient /\ [][NextRequest]_vars

(* the editing specification: tab 1 draws, erases, clears, moves and       *)
(* undoes while messages of peers arrive, the connection comes and goes    *)
(* and time passes                                                         *)
EditDeliveries ==
  { Msg(1, "object-added", CanvasId, PeerObject, <<>>, NotArray, "", 0),
    Msg(1, "object-updated", CanvasId, translate(PeerObject), <<>>, NotArray,
        "", 0),
    Msg(1, "object-removed", CanvasId, Null, <<>>, IdList(<<"a">>), "", 0),
    Msg(1, "canvas-state", CanvasId, Null, <<PeerObject>>, NotArray, "", 0) }

NextEdit ==
  \/ Connect(1) /\ UNCHANGED <<xvars, applied, up, down, base>>
  \/ Drop(1) /\ UNCHANGED <<xvars, applied, up, down, base>>
  \/ /\ \E data \in EditDeliveries : Receive(1, data)
     /\ UNCHANGED <<yvars, applied, up, down, base>>
  \/ TimerFires(1) /\ UNCHANGED <<xvars, applied, up, down, base>>
  \/ /\ now + ECHO_TIMEOUT <= FirstNow + MaxEditElapsed
     /\ Tick(ECHO_TIMEOUT)
     /\ now' = now + ECHO_TIMEOUT
     /\ UNCHANGED <<lastRef, thr, avars, pvars, uvars, applied, up, down, base>>
  \/ /\ \E id \in {"a"} \ InUse : CanPush(1) /\ DrawStroke(1, id)
     /\ UNCHANGED <<xvars, applied, up, down, base>>
  \/ /\ \E i \in 1..Len(objectsRef[1]) :
           CanPush(1) /\ Erase(1, <<objectsRef[1][i].id>>)
     /\ UNCHANGED <<xvars, applied, up, down, base>>
  \/ /\ CanPush(1) /\ ClearCanvas(1)
     /\ UNCHANGED <<yvars, uvars, applied, up, down, base>>
  \/ Undo(1) /\ UNCHANGED <<xvars, applied, up, down, base>>
  \/ /\ \E i \in 1..Len(objectsRef[1]) : DragMove(1, objectsRef[1][i].id)
     /\ UNCHANGED <<pvars, uvars, applied, up, down, base>>
  \/ /\ \E i \in 1..Len(objectsRef[1]) : DragEnd(1, objectsRef[1][i].id)
     /\ UNCHANGED <<pvars, uvars, applied, up, down, base>>

SpecEdit == InitClient /\ [][NextEdit]_vars

(* the echo-flag specification: tab 1 sends adds, removes and clears and   *)
(* receives snapshots at times EchoStep apart, so that their timeouts      *)
(* overlap                                                                 *)
EchoStep == ECHO_TIMEOUT \div 4
EchoSnapshots ==
  { Msg(1, "canvas-state", CanvasId, Null, o, NotArray, "", 0)
    : o \in { <<>>, <<PeerObject>> } }

NextEcho ==
  \/ Connect(1) /\ UNCHANGED <<xvars, applied, up, down, base>>
  \/ /\ \E data \in EchoSnapshots : Receive(1, data)
     /\ UNCHANGED <<yvars, applied, up, down, base>>
  \/ TimerFires(1) /\ UNCHANGED <<xvars, applied, up, down, base>>
  \/ Tick(EchoStep) /\ UNCHANGED <<xvars, applied, up, down, base>>
  \/ /\ \E id \in {"a"} \ InUse : CanPush(1) /\ DrawStroke(1, id)
     /\ UNCHANGED <<xvars, applied, up, down, base>>
  \/ /\ \E i \in 1..Len(objectsRef[1]) :
           CanPush(1) /\ Erase(1, <<objectsRef[1][i].id>>)
     /\ UNCHANGED <<xvars, applied, up, down, base>>
  \/ /\ CanPush(1) /\ ClearCanvas(1)
     /\ UNCHANGED <<yvars, uvars, applied, up, down, base>>
  \/ Undo(1) /\ UNCHANGED <<xvars, applied, up, down, base>>

SpecEcho == InitClient /\ [][NextEcho]_vars

(* the erase-undo specification: tab 1 draws, is shown objects of peers,    *)
(* erases and undoes; base keeps the list an erase found, until the next   *)
(* event of the tab                                                        *)
TrackErase ==
  base' =
    IF did'.ev = "erase"
      THEN [base EXCEPT
              ![did'.to] =
                 [NoBase EXCEPT
                    !.restored = [objects |-> objectsRef[did'.to],
                                  hlen |-> Len(localActionHistory[did'.to]),
                                  id |-> ""]]]
      ELSE [c \in Clients |-> NoBase]

EraseDeliveries ==
  { Msg(1, "object-added", CanvasId, PeerObject, <<>>, NotArray, "", 0),
    Msg(1, "canvas-state", CanvasId, Null,
        <<Obj("a", "stroke", 1), PeerObject>>, NotArray, "", 0) }

\* what the eraser can have passed over: one object, or all of them
EraseChoices(objs) ==
  { <<objs[i].id>> : i \in 1..Len(objs) }
  \cup { [i \in 1..Len(objs) |-> objs[i].id] }

NextErase ==
  \/ Connect(1) /\ TrackErase /\ UNCHANGED <<xvars, applied, up, down>>
  \/ /\ \E data \in EraseDeliveries : Receive(1, data)
     /\ TrackErase /\ UNCHANGED <<yvars, applied, up, down>>
  \/ TimerFires(1) /\ TrackErase /\ UNCHANGED <<xvars, applied, up, down>>
  \/ Tick(ECHO_TIMEOUT) /\ TrackErase /\ UNCHANGED <<xvars, applied, up, down>>
  \/ /\ \E id \in LocalIds \ InUse : CanPush(1) /\ DrawStroke(1, id)
     /\ TrackErase /\ UNCHANGED <<xvars, applied, up, down>>
  \/ /\ \E ids \in EraseChoices(objectsRef[1]) \ {<<>>} :
           CanPush(1) /\ Erase(1, ids)
     /\ TrackErase /\ UNCHANGED <<xvars, applied, up, down>>
  \/ Undo(1) /\ TrackErase /\ UNCHANGED <<xvars, applied, up, down>>

SpecErase == InitClient /\ [][NextErase]_vars

(* the room-change specification: tab 1 draws, erases and undoes, and its  *)
(* page is taken from one room to another                                  *)
RoomDeliveries ==
  { Msg(1, "canvas-state", r, Null, o, NotArray, "", 0) :
      r \in RoomIds, o \in {<<>>, <<PeerObject>>} }

NextRoom ==
  \/ Connect(1) /\ UNCHANGED <<xvars, applied, up, down, base>>
  \/ Drop(1) /\ UNCHANGED <<xvars, applied, up, down, base>>
  \/ /\ \E id \in RoomIds : ChangeRoom(1, id)
     /\ UNCHANGED <<tvars, avars, uvars, applied, up, down, base>>
  \/ /\ \E data \in RoomDeliveries : Receive(1, data)
     /\ UNCHANGED <<yvars, applied, up, down, base>>
  \/ TimerFires(1) /\ UNCHANGED <<xvars, applied, up, down, base>>
  \/ Tick(ECHO_TIMEOUT) /\ UNCHANGED <<xvars, applied, up, down, base>>
  \/ /\ \E id \in {"a"} \ InUse : CanPush(1) /\ DrawStroke(1, id)
     /\ UNCHANGED <<xvars, applied, up, down, base>>
  \/ /\ \E i \in 1..Len(objectsRef[1]) :
           CanPush(1) /\ Erase(1, <<objectsRef[1][i].id>>)
     /\ UNCHANGED <<xvars, applied, up, down, base>>
  \/ Undo(1) /\ UNCHANGED <<xvars, applied, up, down, base>>

SpecRoom == InitClient /\ [][NextRoom]_vars

(* the presence specification: connection 1 moves its cursor, streams a    *)
(* stroke, previews an erase, commits the stroke and is lost; tab 2 is the *)
(* other member of the room, behind a reliable ordered channel             *)
InitPresence ==
  /\ sockets = {1, 2}
  /\ rooms = [r \in RoomIds |-> IF r = FirstCanvasId THEN {1, 2} ELSE {}]
  /\ canvasUsers = [r \in RoomIds |-> IF r = FirstCanvasId THEN {1, 2} ELSE {}]
  /\ canvasStates = [r \in RoomIds |-> <<>>]
  /\ last = In("join-canvas", 1, FirstCanvasId, Null, NotArray)
  /\ out = { Msg(1, "canvas-state", FirstCanvasId, Null, <<>>, NotArray, "", 0) }
  /\ applied = [r \in RoomIds |-> <<>>]
  /\ pageCanvasId = FirstCanvasId
  /\ InitPeers
  /\ objectsRef = [c \in Clients |-> <<>>]
  /\ localActionHistory = [c \in Clients |-> <<>>]
  /\ isLocalActionRef = [c \in Clients |-> FALSE]
  /\ timers = [c \in Clients |-> {}]
  /\ isConnected = [c \in Clients |-> TRUE]
  /\ did = Msg(0, "none", "", Null, <<>>, NotArray, "", 0)
  /\ sent = <<>>
  /\ up = [c \in Clients |-> <<>>]
  /\ down = [c \in Clients |-> <<>>]
  /\ base = [c \in Clients |-> NoBase]
  /\ now = FirstNow
  /\ lastRef = [c \in Clients |-> [k \in RefKinds |-> 0]]
  /\ thr = [c \in Clients |->
             [calls |-> 0, emits |-> [k \in Kinds |-> <<>>],
              sentVals |-> {}, droppedVals |-> {}]]
  /\ InitAssets(<<>>, "forward")

\* the order in which one relay handler emits its messages
EmitOrder ==
  << "object-added", "cursor-update", "cursor-stop", "stroke-progress",
     "stroke-progress-end", "eraser-preview", "eraser-preview-end" >>

\* what a relay handler's emits put on the channel to tab r, in that order
DeliveredAll(msgs, r) ==
  LET F[i \in 0..Len(EmitOrder)] ==
        IF i = 0 THEN <<>>
        ELSE LET mine == { m \in msgs : m.to = r /\ m.ev = EmitOrder[i] }
             IN IF mine = {} THEN F[i - 1]
                ELSE Append(F[i - 1], CHOOSE m \in mine : TRUE)
  IN F[Len(EmitOrder)]

\* the streamed stroke and the object it is committed as
StreamedStroke == Obj("", "partial", 1)
CommittedStroke == Obj("a", "stroke", 1)

\* an event of connection 1 reaches the relay
PresenceEvent ==
  \/ CursorUpdate(1, FirstCanvasId, Position)
  \/ CursorStop(1, FirstCanvasId)
  \/ StrokeProgress(1, FirstCanvasId, "a", StreamedStroke)
  \/ StrokeProgressEnd(1, FirstCanvasId, "a")
  \/ EraserPreview(1, FirstCanvasId, IdList(<<"b">>))
  \/ EraserPreviewEnd(1, FirstCanvasId)
  \/ ObjectAdded(1, FirstCanvasId, CommittedStroke)

PresenceSend ==
  /\ Len(down[2]) < MaxInFlight
  /\ PresenceEvent
  /\ down' = [down EXCEPT ![2] = @ \o DeliveredAll(out', 2)]
  /\ UNCHANGED <<xvars, applied, objectsRef, localActionHistory,
                 isLocalActionRef, timers, isConnected, did, sent, up, base>>

\* connection 1 is lost
PresenceLost ==
  /\ Disconnect(1)
  /\ down' = [down EXCEPT ![2] = @ \o DeliveredAll(out', 2)]
  /\ UNCHANGED <<xvars, applied, objectsRef, localActionHistory,
                 isLocalActionRef, timers, isConnected, did, sent, up, base>>

PresenceDeliver ==
  /\ down[2] # <<>>
  /\ Receive(2, Head(down[2]))
  /\ down' = [down EXCEPT ![2] = Tail(@)]
  /\ UNCHANGED <<yvars, applied, up, base>>

PresenceInterval ==
  /\ CursorInterval(2)
  /\ UNCHANGED <<yvars, applied, up, down, base>>

NextPresence ==
  \/ PresenceSend
  \/ PresenceLost
  \/ PresenceDeliver
  \/ PresenceInterval

\* socket.io delivers what the relay emitted, and the interval keeps firing
SpecPresence ==
  /\ InitPresence /\ [][NextPresence]_vars
  /\ WF_vars(PresenceDeliver) /\ WF_vars(PresenceInterval)

(* the peers specification: tab 1 receives what connections 2 and 3 stream *)
(* and commit.  Connection 2 draws stroke a from point 1; connection 3     *)
(* draws stroke c from point 1 and stroke d from point 2.                  *)
PeerStrokes ==
  { [nodeId |-> 2, id |-> "a", v |-> 1],
    [nodeId |-> 3, id |-> "c", v |-> 1],
    [nodeId |-> 3, id |-> "d", v |-> 2] }

PeerDeliveries ==
  { Msg(1, "stroke-progress", CanvasId, Obj("", "partial", k.v), <<>>,
        IdList(<<k.id>>), "", k.nodeId) : k \in PeerStrokes }
  \cup { Msg(1, "stroke-progress-end", "", Null, <<>>, IdList(<<k.id>>), "",
             k.nodeId) : k \in PeerStrokes }
  \cup { Msg(1, "object-added", CanvasId, Obj(k.id, "stroke", k.v), <<>>,
             NotArray, "", 0) : k \in PeerStrokes }
  \cup { Msg(1, "object-added", CanvasId, PeerObject, <<>>, NotArray, "", 0) }

NextPeers ==
  \/ Connect(1) /\ UNCHANGED <<xvars, applied, up, down, base>>
  \/ Drop(1) /\ UNCHANGED <<xvars, applied, up, down, base>>
  \/ /\ \E data \in PeerDeliveries : Receive(1, data)
     /\ UNCHANGED <<yvars, applied, up, down, base>>

SpecPeers == InitClient /\ [][NextPeers]_vars

(* ------------------------------------------------------------- properties *)
TypeOK ==
  /\ \A r \in RoomIds : rooms[r] \subseteq sockets /\ canvasUsers[r] = rooms[r]

Ids(objectIds) == { objectIds[i] : i \in 1..Len(objectIds) }
Count(objects, id) == Cardinality({ i \in 1..Len(objects) : objects[i].id = id })
Has(objects, idset) == \E i \in 1..Len(objects) : objects[i].id \in idset
Recipients(msgs) == { m.to : m \in msgs }
AddEvents == {"object-added", "stroke-added"}
RemoveEvents == {"object-removed", "stroke-removed"}
WellFormed(object) == ~object.nil /\ object.id # ""

\* C1: in every reachable state every room has at most 10 admitted
\* connections, in the adapter room and in the user table alike.
C1_Capacity ==
  \A r \in RoomIds :
     /\ Cardinality(rooms[r]) <= 10
     /\ Cardinality(canvasUsers[r]) <= 10

\* the tenth join was accepted: the room is exactly full
C1_Witness ==
  /\ last.ev = "join-canvas"
  /\ Cardinality(rooms["r1"]) = 10
  /\ \E m \in out : m.ev = "canvas-state" /\ m.to = last.from

\* C2: a join from a non-member that finds 10 members gets exactly one
\* message, the capacity error addressed to it; it is not added to the room
\* or the user table; and every message any handler emits to a connection
\* other than the sender goes to a current member of the message's room, so
\* a rejected connection is a recipient of no broadcast.
C2_FullRoomRejects ==
  [][ /\ ( /\ last'.ev = "join-canvas"
           /\ last'.canvasId \in RoomIds
           /\ last'.from \notin rooms[last'.canvasId]
           /\ Cardinality(rooms[last'.canvasId]) >= 10 )
         => /\ out' = { Msg(last'.from, "error", "", Null, <<>>, NotArray,
                            SessionFull, 0) }
            /\ last'.from \notin rooms'[last'.canvasId]
            /\ last'.from \notin canvasUsers'[last'.canvasId]
      /\ \A m \in out' :
            m.to # last'.from =>
              m.canvasId \in RoomIds /\ m.to \in rooms'[m.canvasId]
    ]_vars

\* the eleventh connection was just turned away from a full room
C2_Witness ==
  /\ last.ev = "join-canvas"
  /\ last.from \notin rooms["r1"]
  /\ Cardinality(rooms["r1"]) = 10
  /\ out = { Msg(last.from, "error", "", Null, <<>>, NotArray, SessionFull, 0) }

\* the operations as section 4.2 states them, for the fold of C3
FoldAddOp(objects, object) ==
  IF WellFormed(object) /\ ~Has(objects, {object.id})
    THEN Append(objects, normalizeObject(object))
    ELSE objects
FoldUpdateOp(objects, object) ==
  IF ~WellFormed(object) THEN objects
  ELSE IF Has(objects, {object.id})
    THEN [i \in 1..Len(objects) |->
            IF objects[i].id = object.id THEN normalizeObject(object)
            ELSE objects[i]]
    ELSE Append(objects, normalizeObject(object))
FoldRemoveOp(objects, ids) ==
  IF ids.isArray
    THEN SelectSeq(objects, LAMBDA o : o.id \notin Ids(ids.ids))
    ELSE objects
FoldOp(objects, m) ==
  IF m.ev \in AddEvents THEN FoldAddOp(objects, m.object)
  ELSE IF m.ev = "object-updated" THEN FoldUpdateOp(objects, m.object)
  ELSE IF m.ev \in RemoveEvents THEN FoldRemoveOp(objects, m.ids)
  ELSE <<>>
RECURSIVE Fold(_, _)
Fold(objects, log) ==
  IF log = <<>> THEN objects
  ELSE Fold(FoldOp(objects, Head(log)), Tail(log))

\* C3: the snapshot a joining client is sent equals the sequential fold, from
\* the empty list and in relay arrival order, of every add, update, remove and
\* clear message handled for that room so far.
C3_SnapshotIsFold ==
  \A m \in out :
     m.ev = "canvas-state" => m.objects = Fold(<<>>, applied[m.canvasId])

\* a client joined after three or more mutations, one of them a remove or a
\* clear, and got a non-empty snapshot
C3_Witness ==
  /\ last.ev = "join-canvas"
  /\ Len(applied["r1"]) >= 3
  /\ \E i \in 1..Len(applied["r1"]) :
        applied["r1"][i].ev \in RemoveEvents \cup {"canvas-cleared"}
  /\ \E m \in out : m.ev = "canvas-state" /\ m.objects # <<>>

\* C4: a join produces exactly one message and it is addressed to the joining
\* connection; no other connection receives anything because of the join.
C4_SnapshotOnlyToJoiner ==
  last.ev = "join-canvas" =>
    /\ Cardinality(out) = 1
    /\ Recipients(out) = {last.from}

\* a join was accepted into a room that has two other members
C4_Witness ==
  /\ last.ev = "join-canvas"
  /\ \E m \in out : m.ev = "canvas-state"
  /\ Cardinality(rooms["r1"] \ {last.from}) >= 2

\* C5: no room's object list holds two entries with the same id.
C5_UniqueIds ==
  \A r \in RoomIds :
     \A i, j \in 1..Len(canvasStates[r]) :
        canvasStates[r][i].id = canvasStates[r][j].id => i = j

\* an update for id a was handled and the list holds two objects
C5_Witness ==
  /\ last.ev = "object-updated"
  /\ last.object.id = "a"
  /\ Len(canvasStates["r1"]) = 2

\* C6: an add (new or legacy event) of a well-formed object whose id is
\* already in the room's list leaves the list as it was, with exactly one
\* object of that id, and no add is broadcast.
C6_DuplicateAdd ==
  [][ ( /\ last'.ev \in AddEvents
        /\ last'.canvasId \in RoomIds
        /\ WellFormed(last'.object)
        /\ Has(canvasStates[last'.canvasId], {last'.object.id}) )
      => /\ canvasStates' = canvasStates
         /\ Count(canvasStates'[last'.canvasId], last'.object.id) = 1
         /\ \A m \in out' : m.ev \notin AddEvents
    ]_vars

\* a second add of id a was handled while other members were in the room
C6_Witness ==
  /\ last.ev = "object-added"
  /\ last.canvasId = "r1"
  /\ last.object.id = "a"
  /\ Count(canvasStates["r1"], "a") = 1
  /\ rooms["r1"] \ {last.from} # {}
  /\ \A m \in out : m.ev \notin AddEvents

\* C7: a remove with an id array deletes exactly the entries whose id is
\* listed and keeps the others in order; its recipients are the other members
\* of the room when at least one entry was deleted and nobody otherwise.
C7_Remove ==
  [][ ( /\ last'.ev \in RemoveEvents
        /\ last'.canvasId \in RoomIds
        /\ last'.ids.isArray )
      => LET before == canvasStates[last'.canvasId]
             after == canvasStates'[last'.canvasId]
             idset == Ids(last'.ids.ids) IN
         /\ after = SelectSeq(before, LAMBDA o : o.id \notin idset)
         /\ ~Has(before, idset) => after = before /\ out' = {}
         /\ Recipients(out') =
              IF Has(before, idset)
                THEN rooms[last'.canvasId] \ {last'.from}
                ELSE {}
         /\ \A m \in out' : m.ev \in RemoveEvents /\ m.ids = last'.ids
    ]_vars

\* b was removed from a two-element list and the removal was rebroadcast
C7_Witness ==
  /\ last.ev = "object-removed"
  /\ last.ids = IdList(<<"b">>)
  /\ Len(canvasStates["r1"]) = 1
  /\ \E m \in out : m.ev = "object-removed"

\* the mutation message m changes or rewrites the list of its room
Applies(m, states) ==
  /\ m.canvasId \in RoomIds
  /\ \/ m.ev \in AddEvents /\ WellFormed(m.object)
          /\ ~Has(states[m.canvasId], {m.object.id})
     \/ m.ev = "object-updated" /\ WellFormed(m.object)
     \/ m.ev \in RemoveEvents /\ m.ids.isArray
          /\ Has(states[m.canvasId], Ids(m.ids.ids))
     \/ m.ev = "canvas-cleared"

\* C8: when the relay applies an add, update, remove or clear, the messages
\* it emits go to exactly the connections in the room other than the sender,
\* each of them gets the same event for that room, and the sender gets
\* nothing.
C8_BroadcastExcludesSender ==
  [][ Applies(last', canvasStates)
      => /\ Recipients(out') = rooms[last'.canvasId] \ {last'.from}
         /\ \A p \in rooms[last'.canvasId] \ {last'.from} :
               \E m \in out' :
                  m.to = p /\ m.ev = last'.ev /\ m.canvasId = last'.canvasId
    ]_vars

\* a member's update went to the two other members of the room
C8_Witness ==
  /\ last.ev = "object-updated"
  /\ last.from \in rooms["r1"]
  /\ Cardinality(Recipients(out)) = 2
  /\ \A m \in out : m.ev = "object-updated"

\* one error message, addressed to the sender
ErrorReply(msgs, socket) ==
  /\ Cardinality(msgs) = 1
  /\ \A m \in msgs : m.ev = "error" /\ m.to = socket

BadCanvasOrObject(m) ==
  /\ m.ev \in MutationEvents
  /\ \/ m.canvasId = ""
     \/ m.ev \in AddEvents \cup {"object-updated"} /\ ~WellFormed(m.object)
     \/ m.ev \in RemoveEvents /\ ~m.ids.isArray

EmptyRemove(m) ==
  /\ m.ev \in RemoveEvents
  /\ m.canvasId \in RoomIds
  /\ m.ids.isArray
  /\ m.ids.ids = <<>>

\* C9 as stated: a mutation with an empty canvasId, an add or update whose
\* object has no id, or a remove whose id list is missing or empty gets an
\* error reply, changes no list and is not broadcast.
C9_Original ==
  [][ (BadCanvasOrObject(last') \/ EmptyRemove(last'))
      => /\ ErrorReply(out', last'.from)
         /\ canvasStates' = canvasStates
    ]_vars

\* C9 amended: a mutation with an empty canvasId, an add or update whose
\* object is missing or has no id, or a remove whose id list is not an array
\* gets exactly one message, an error addressed to the sender, and changes no
\* list; a remove with an empty id array changes no list and produces no
\* message at all, neither broadcast nor error.
C9_MalformedDropped ==
  [][ /\ BadCanvasOrObject(last')
         => /\ ErrorReply(out', last'.from)
            /\ canvasStates' = canvasStates
      /\ EmptyRemove(last')
         => /\ out' = {}
            /\ canvasStates' = canvasStates
    ]_vars

\* a member sent a remove with an empty id array to a room that holds objects
\* and other members: nothing was emitted
C9_Witness ==
  /\ last.ev = "object-removed"
  /\ last.canvasId = "r1"
  /\ last.ids = IdList(<<>>)
  /\ canvasStates["r1"] # <<>>
  /\ rooms["r1"] \ {last.from} # {}
  /\ out = {}

\* C10: a disconnect takes the connection out of every room and of the user
\* table, sends a cursor-stop naming it to each remaining member of each room
\* it was in, and leaves every object list as it was; and every snapshot sent
\* on a join is the room's current list, whoever left before.
C10_DisconnectKeepsObjects ==
  [][ /\ last'.ev = "disconnect"
         => /\ \A r \in RoomIds :
                  /\ last'.from \notin rooms'[r]
                  /\ last'.from \notin canvasUsers'[r]
                  /\ last'.from \in rooms[r] =>
                       \A p \in rooms[r] \ {last'.from} :
                          Msg(p, "cursor-stop", r, Null, <<>>, NotArray, "",
                              last'.from) \in out'
            /\ canvasStates' = canvasStates
      /\ \A m \in out' :
            m.ev = "canvas-state" => m.objects = canvasStates'[m.canvasId]
    ]_vars

\* a member left a room that holds objects and the others were notified
C10_Witness ==
  /\ last.ev = "disconnect"
  /\ canvasStates["r1"] # <<>>
  /\ \E m \in out : m.ev = "cursor-stop" /\ m.nodeId = last.from
\* C20: a cursor, stroke-progress, move-preview or eraser-preview message, or
\* one of their end/stop variants, leaves every room's object list as it was,
\* and no canvas-state snapshot carries a position, a partial stroke or a
\* preview copy.
EphemeralEvents ==
  {"cursor-update", "cursor-stop", "stroke-progress", "stroke-progress-end",
   "object-move-preview", "object-move-preview-end", "eraser-preview",
   "eraser-preview-end"}
EphemeralObjects == { Position, PartialStroke, PreviewCopy }
C20_EphemeralNotStored ==
  [][ /\ last'.ev \in EphemeralEvents => canvasStates' = canvasStates
      /\ \A m \in out' :
            m.ev = "canvas-state" =>
              \A i \in 1..Len(m.objects) : m.objects[i] \notin EphemeralObjects
    ]_vars
\* a member's stroke-progress was forwarded while the room holds an object
C20_Witness ==
  /\ last.ev = "stroke-progress"
  /\ out # {}
  /\ canvasStates["r1"] # <<>>


\* C12: when a tab's last four operations are add(A), add(B), undo, undo, with
\* no message received and no other operation in between, its list is again
\* the list it had before add(A), it holds neither A nor B, and its undo
\* stack is as deep as it was before add(A).
AddAddUndoUndo(c) ==
  /\ Len(base[c].script) = 4
  /\ base[c].script[1].op = "add" /\ base[c].script[2].op = "add"
  /\ base[c].script[3].op = "undo" /\ base[c].script[4].op = "undo"
C12_UndoReverses ==
  \A c \in Clients :
     AddAddUndoUndo(c) =>
       /\ objectsRef[c] = base[c].restored.objects
       /\ Len(localActionHistory[c]) = base[c].restored.hlen
       /\ base[c].script[1].id \notin ObjIds(objectsRef[c])
       /\ base[c].script[2].id \notin ObjIds(objectsRef[c])
\* the sequence was done on a list that already held a peer's object
C12_Witness ==
  /\ AddAddUndoUndo(1)
  /\ base[1].script[1].id # base[1].script[2].id
  /\ objectsRef[1] # <<>>

\* C13: an undo whose entry is the add of a stroke that is no longer in the
\* list (a peer removed it, and the removal was applied) completes: the list
\* is unchanged, nothing is sent, the entry is gone from the stack and the
\* tab stays usable.
C13_UndoOfRemovedAdd ==
  [][ \A c \in Clients :
        LET h == localActionHistory[c] IN
        ( /\ did'.ev = "undo" /\ did'.to = c
          /\ h # <<>>
          /\ h[Len(h)].type = "add"
          /\ h[Len(h)].object.id \notin ObjIds(objectsRef[c]) )
        => /\ objectsRef'[c] = objectsRef[c]
           /\ sent' = <<>>
           /\ localActionHistory'[c] = SubSeq(h, 1, Len(h) - 1)
           /\ isConnected'[c]
    ]_vars
\* tab 1 undid the add of a stroke that was no longer in its list
C13_Witness ==
  /\ did.ev = "undo" /\ did.to = 1
  /\ base[1].undid.type = "add"
  /\ base[1].undid.object.id \notin base[1].had
  /\ sent = <<>>

\* C17: an undo changes the list only at the ids of the entry it pops and
\* sends add / remove messages for those ids only; the objects with other
\* ids stay, in the same order and with the same content.
Others(objs, ids) == SelectSeq(objs, LAMBDA o : o.id \notin ids)
C17_UndoFrame ==
  [][ \A c \in Clients :
        LET h == localActionHistory[c] IN
        ( did'.ev = "undo" /\ did'.to = c /\ h # <<>> )
        => LET ids == EntryIds(<<h[Len(h)]>>) IN
           /\ Others(objectsRef'[c], ids) = Others(objectsRef[c], ids)
           /\ \A i \in 1..Len(sent') :
                 /\ sent'[i].ev \in {"object-added", "object-removed"}
                 /\ MsgIds(<<sent'[i]>>) \subseteq ids \cup {""}
    ]_vars
\* tab 1 undid an erase: it restored and re-sent the erased object next to
\* an object that the entry does not name
C17_Witness ==
  /\ did.ev = "undo" /\ did.to = 1
  /\ base[1].undid.type = "remove"
  /\ sent # <<>>
  /\ ObjIds(objectsRef[1]) \ EntryIds(<<base[1].undid>>) # {}

\* C15: a send of a local add, remove or clear opens the suppression window
\* (sets the flag); the window is open only while a timeout of at most 100 ms
\* is pending; an add, remove or clear received while the window is open
\* leaves the list as it is, and one received while it is closed is applied.
LocalOps == {"draw", "erase", "clear", "undo"}
AppliedTo(objs, data) ==
  CASE data.ev = "object-added" -> data.object.id \in ObjIds(objs)
    [] data.ev = "object-removed" ->
         \A i \in 1..Len(data.ids.ids) : data.ids.ids[i] \notin ObjIds(objs)
    [] data.ev = "canvas-cleared" -> objs = <<>>
NoDuplicates(objs) ==
  \A i, j \in 1..Len(objs) : objs[i].id = objs[j].id => i = j
C16_IdempotentApply ==
  [][ \A c \in Clients :
        /\ ( /\ did'.to = c /\ did'.ev = "object-added"
             /\ did'.object.id \in ObjIds(objectsRef[c]) )
             => objectsRef'[c] = objectsRef[c]
        /\ ( /\ did'.to = c /\ did'.ev = "object-removed"
             /\ \A i \in 1..Len(did'.ids.ids) :
                   did'.ids.ids[i] \notin ObjIds(objectsRef[c]) )
             => objectsRef'[c] = objectsRef[c]
        /\ NoDuplicates(objectsRef'[c])
    ]_vars
\* outside the window tab 1 received the add of a stroke it already held
C16_Witness ==
  /\ did.ev = "object-added" /\ did.to = 1
  /\ ~isLocalActionRef[1]
  /\ did.object.id \in base[1].had
  /\ Len(objectsRef[1]) > 1

\* C18: every connect makes the tab send a join for its canvas, and a
\* snapshot for its canvas replaces the list: afterwards the list is exactly
\* the snapshot's objects.
C18_RejoinAndReplace ==
  [][ \A c \in Clients :
        /\ (did'.to = c /\ did'.ev = "connect")
             => sent' = << ClientMsg("join-canvas", Null, NotArray) >>
        /\ (did'.to = c /\ did'.ev = "canvas-state" /\ did'.canvasId = CanvasId)
             => objectsRef'[c] = did'.objects
    ]_vars
\* a snapshot replaced a list that held an object the snapshot lacks, on a
\* tab with an entry on its undo stack
C18_Witness ==
  /\ did.ev = "canvas-state" /\ did.to = 1
  /\ base[1].had \ ObjIds(did.objects) # {}
  /\ localActionHistory[1] # <<>>
  /\ objectsRef[1] = did.objects

\* C11: whenever both channels of every tab are empty, every admitted tab's
\* list holds exactly the ids of the relay's list for the room.
Quiescent == \A c \in Clients : up[c] = <<>> /\ down[c] = <<>>
C11_Convergence ==
  Quiescent =>
    \A c \in rooms[CanvasId] :
       ObjIds(objectsRef[c]) = ObjIds(canvasStates[CanvasId])

\* C19: for each throttled kind, a call made less than 50 ms after the last
\* emit of that kind emits nothing; any two emits of one kind by one tab are
\* at least 50 ms apart; a call emits at most its own value, so the value of
\* a dropped call is never sent.
C19_Throttle ==
  [][ \A c \in Clients : \A k \in Kinds :
        LET e == thr[c].emits[k]
            f == thr'[c].emits[k]
            call == did'.to = c /\ did'.ev = k /\ did'.message = "send"
        IN /\ (call /\ e # <<>> /\ now - e[Len(e)] < THROTTLE)
                => sent' = <<>>
           /\ \A i, j \in 1..Len(f) : i < j => f[j] - f[i] >= THROTTLE
           /\ call => \A i \in 1..Len(sent') :
                         sent'[i].ev = k /\ sent'[i].object = did'.object
           /\ thr'[c].droppedVals \cap thr'[c].sentVals = {}
    ]_vars
\* tab 1 emitted, dropped a call of the same kind inside the window, and
\* emitted that kind again later
C19_Witness ==
  \E k \in Kinds :
     /\ Len(thr[1].emits[k]) = 2
     /\ thr[1].droppedVals = {2}
     /\ thr[1].sentVals = {1, 3}

\* C14: once the complete message of a blob of K chunks has been handled,
\* after its K chunks arrived with seq 0..K-1 in whatever order, the bytes
\* the receiver assembled are the bytes of the blob, and they are what it
\* saved if its list holds the image.
C14_AssetRoundTrip ==
  env.completed =>
    /\ { env.got[i] : i \in 1..Len(env.got) } = 0..(NumChunks(Len(env.blob)) - 1)
    /\ Len(env.got) = NumChunks(Len(env.blob))
    /\ env.assembled = [has |-> TRUE, bytes |-> env.blob]
    /\ (objectsRef[2] # <<>>) => savedAsset[2] = [has |-> TRUE, bytes |-> env.blob]
    /\ ~incomingAssetChunksRef[2].has
\* fifty chunks arrived in reverse order, the last one short, and the blob
\* was assembled and saved
C14_Witness ==
  /\ env.completed
  /\ Len(env.got) = 50
  /\ env.got[1] = 49 /\ env.got[50] = 0
  /\ Len(env.blob) % ChunkSize # 0
  /\ savedAsset[2].has

\* C21: an update of a well-formed object puts the object (type defaulted to
\* stroke) at the position of the entry with its id and leaves every other
\* entry as it was, or appends it when no entry has the id; either way each
\* other member of the room, and nobody else, gets one object-updated with
\* that object.
C21_UpdateReplacesOrAppends ==
  [][ ( /\ last'.ev = "object-updated"
        /\ last'.canvasId \in RoomIds
        /\ WellFormed(last'.object) )
      => LET r == last'.canvasId
             before == canvasStates[r]
             after == canvasStates'[r]
             o == IF last'.object.type = ""
                    THEN [last'.object EXCEPT !.type = "stroke"]
                    ELSE last'.object
         IN /\ IF Has(before, {o.id})
                 THEN /\ Len(after) = Len(before)
                      /\ \A i \in 1..Len(before) :
                            after[i] = IF before[i].id = o.id THEN o
                                                              ELSE before[i]
                 ELSE after = Append(before, o)
            /\ \A x \in RoomIds \ {r} : canvasStates'[x] = canvasStates[x]
            /\ out' = { Msg(m, "object-updated", r, o, <<>>, NotArray, "", 0)
                        : m \in rooms[r] \ {last'.from} }
    ]_vars
\* an update replaced the first of two entries and was sent on to a peer
C21_Witness ==
  /\ last.ev = "object-updated"
  /\ last.canvasId = "r1"
  /\ last.object = Obj("a", "", 2)
  /\ canvasStates["r1"] = << Obj("a", "stroke", 2), Obj("b", "image", 1) >>
  /\ out # {}

\* C22: an add of a well-formed object whose id is already in the room's
\* list changes no list and sends nothing to anybody, the sender included.
C22_DuplicateAddSilent ==
  [][ ( /\ last'.ev = "object-added"
        /\ last'.canvasId \in RoomIds
        /\ WellFormed(last'.object)
        /\ Has(canvasStates[last'.canvasId], {last'.object.id}) )
      => /\ canvasStates' = canvasStates
         /\ out' = {}
    ]_vars

\* C23: the undo of a remove entry keeps the list it finds and puts behind
\* it the recorded objects whose id the list lacks, each once; it sends one
\* add for each of these and nothing else, so a recorded object that is
\* already in the list is neither doubled nor sent.
C23_UndoRemoveRestoresAbsent ==
  [][ \A c \in Clients :
        LET h == localActionHistory[c]
            before == objectsRef[c]
            after == objectsRef'[c]
        IN ( /\ did'.ev = "undo" /\ did'.to = c
             /\ h # <<>>
             /\ h[Len(h)].type = "remove" )
           => LET recorded == h[Len(h)].objects
                  absent == ObjIds(recorded) \ ObjIds(before)
              IN /\ SubSeq(after, 1, Len(before)) = before
                 /\ Len(after) = Len(before) + Cardinality(absent)
                 /\ \A i \in (Len(before) + 1)..Len(after) :
                       /\ after[i].id \in absent
                       /\ \E j \in 1..Len(recorded) : recorded[j] = after[i]
                 /\ NoDuplicates(after)
                 /\ Len(sent') = Cardinality(absent)
                 /\ \A i \in 1..Len(sent') :
                       /\ sent'[i].ev = "object-added"
                       /\ sent'[i].object = after[Len(before) + i]
    ]_vars
\* tab 1 undid the removal of two objects, one of which was back in its list
\* already: it restored and sent the other one only
C23_Witness ==
  /\ did.ev = "undo" /\ did.to = 1
  /\ base[1].undid.type = "remove"
  /\ Len(base[1].undid.objects) = 2
  /\ Cardinality(ObjIds(base[1].undid.objects) \cap base[1].had) = 1
  /\ Len(sent) = 1
  /\ Len(objectsRef[1]) = 2

\* C24 as stated: every local operation that changes the list (draw, erase,
\* clear, move) pushes exactly one entry, an undo that finds an entry pops
\* exactly one, and nothing else touches the undo stack.
HistoryPushes == {"draw", "erase", "clear"}
Pushed(c) ==
  /\ Len(localActionHistory'[c]) = Len(localActionHistory[c]) + 1
  /\ SubSeq(localActionHistory'[c], 1, Len(localActionHistory[c]))
       = localActionHistory[c]
Popped(c) ==
  IF localActionHistory[c] = <<>>
    THEN localActionHistory'[c] = <<>>
    ELSE localActionHistory'[c]
           = SubSeq(localActionHistory[c], 1, Len(localActionHistory[c]) - 1)
C24_Original ==
  [][ \A c \in Clients :
        IF did'.to = c /\ did'.ev \in HistoryPushes \cup {"move"}
             /\ objectsRef'[c] # objectsRef[c]
          THEN Pushed(c)
        ELSE IF did'.to = c /\ did'.ev = "undo"
          THEN Popped(c)
          ELSE localActionHistory'[c] = localActionHistory[c]
    ]_vars
\* C24: a local draw, erase or clear that changes the list pushes exactly
\* one entry; an undo pops exactly one (none from an empty stack); a move of
\* a selection changes the list and pushes nothing; a received mutation, a
\* snapshot, a connect, a disconnect and the passing of time leave the stack
\* as it is.
C24_HistoryPushPop ==
  [][ \A c \in Clients :
        IF did'.to = c /\ did'.ev \in HistoryPushes
             /\ objectsRef'[c] # objectsRef[c]
          THEN Pushed(c)
        ELSE IF did'.to = c /\ did'.ev = "undo"
          THEN Popped(c)
          ELSE localActionHistory'[c] = localActionHistory[c]
    ]_vars
\* with an entry on its stack, tab 1 applied a peer's update of an object
\* that it had moved itself
C24_Witness ==
  /\ did.ev = "object-updated" /\ did.to = 1
  /\ ~isLocalActionRef[1]
  /\ Len(localActionHistory[1]) = 2
  /\ lastRef[1]["object-updated"] > 0
  /\ \E i \in 1..Len(objectsRef[1]) : objectsRef[1][i] = translate(PeerObject)

HoldsNothingOf(c, n) ==
  /\ n \notin DOMAIN remoteCursors[c]
  /\ n \notin DOMAIN inProgressStrokes[c]
  /\ n \notin DOMAIN remoteEraserPreviews[c]
C26_TransientStateCleared ==
  (1 \notin sockets) ~> HoldsNothingOf(2, 1)

\* C27: when tab c applies a committed add, the in-progress stroke that
\* carries the id of the committed object is removed and the in-progress
\* strokes with other ids stay as they are.
C27_RetiresByStrokeId ==
  [][ \A c \in Clients :
        ( /\ did'.to = c /\ did'.ev = "object-added"
          /\ did'.canvasId = CanvasId /\ ~did'.object.nil
          /\ ~isLocalActionRef[c] )
        => \A n \in DOMAIN inProgressStrokes[c] :
             IF inProgressStrokes[c][n].nodeIdStrokeId = did'.object.id
               THEN n \notin DOMAIN inProgressStrokes'[c]
               ELSE /\ n \in DOMAIN inProgressStrokes'[c]
                    /\ inProgressStrokes'[c][n] = inProgressStrokes[c][n]
    ]_vars

\* C28: tab 2 assembles, stores or shows the asset only if every chunk of
\* it was delivered.
DeliveredSeqs == { env.got[i] : i \in 1..Len(env.got) }
AllSeqs == 0..(NumChunks(Len(env.blob)) - 1)
C28_NoAssemblyWithoutAllChunks ==
  (env.assembled.has \/ savedAsset[2].has) => DeliveredSeqs = AllSeqs

\* C29: what tab 1 has put on the channel for its upload is, at any time,
\* the beginning of: one start, the chunks with seq 0, 1, ..., K-1 in this
\* order, one complete.
AssetEvents ==
  {"asset-upload-start", "asset-upload-chunk", "asset-upload-complete"}
EmittedAsset(c) == SelectSeq(up[c], LAMBDA m : m.ev \in AssetEvents)
ExpectedUpload(K) ==
  [i \in 1..(K + 2) |->
     IF i = 1 THEN [ev |-> "asset-upload-start", seq |-> 0]
     ELSE IF i = K + 2 THEN [ev |-> "asset-upload-complete", seq |-> 0]
     ELSE [ev |-> "asset-upload-chunk", seq |-> i - 2]]
HoldsImage(c) ==
  \E i \in 1..Len(objectsRef[c]) :
     objectsRef[c][i].type = "image" /\ objectsRef[c][i].id = AssetId
LacksAsset(c) == AssetId \notin imageCache[c] /\ ~savedAsset[c].has
RequestUnderWay(c) ==
  AssetMsg("asset-request", 0, <<>>, 0) \in wire
C30_MissingAssetIsRequested ==
  [][ \A c \in Clients :
        ( /\ did'.to = c /\ did'.ev = "ensure-assets"
          /\ c \in sockets /\ isConnected[c]
          /\ HoldsImage(c)' /\ LacksAsset(c)' )
        => RequestUnderWay(c)' ]_vars

\* C31: a join or mutation addressed to room X leaves the objects list and
\* the membership of every other room as they were, and whatever it
\* broadcasts or replies, errors to the sender aside, goes to members of X.
RoomEvents ==
  {"join-canvas", "object-added", "object-updated", "object-removed",
   "canvas-cleared"}
C31_OtherRoomsUntouched ==
  [][ (last'.ev \in RoomEvents /\ last'.canvasId \in RoomIds) =>
        /\ \A other \in RoomIds \ {last'.canvasId} :
              /\ canvasStates'[other] = canvasStates[other]
              /\ rooms'[other] = rooms[other]
              /\ canvasUsers'[other] = canvasUsers[other]
        /\ \A m \in out' :
              m.ev # "error" =>
                 /\ m.to \in rooms'[last'.canvasId]
                 /\ m.canvasId = last'.canvasId ]_vars
\* a clear of r2 has emptied it and reached its other member, while r1
\* still has its objects and its own member
C31_Witness ==
  /\ last.ev = "canvas-cleared" /\ last.canvasId = "r2" /\ last.from = 1
  /\ canvasStates["r2"] = <<>>
  /\ Len(canvasStates["r1"]) = 2
  /\ rooms["r1"] = {1} /\ rooms["r2"] = {1, 2}
  /\ \E m \in out : m.to = 2 /\ m.ev = "canvas-cleared"

\* C32: when a tab receives an error message from the relay, its object
\* list and its local action history are what they were before it.
C32_ErrorKeepsLocalState ==
  [][ \A c \in Clients :
        (did'.ev = "error" /\ did'.to = c) =>
           /\ objectsRef'[c] = objectsRef[c]
           /\ localActionHistory'[c] = localActionHistory[c] ]_vars
\* the error has come to a tab that holds objects and undoable actions
C32_Witness ==
  /\ did.ev = "error" /\ did.to = 1
  /\ Len(objectsRef[1]) = 2
  /\ Len(localActionHistory[1]) = 2

\* C33: when the error reply to a mutation reaches its sender, the sender is
\* still a member of the room and its tab is still able to make local
\* mutations (the handlers that start them return unless isConnected).
C33_ErrorKeepsSession ==
  [][ \A c \in Clients :
        (did'.ev = "error" /\ did'.to = c) =>
           /\ c \in sockets' /\ c \in rooms'[CanvasId]
           /\ isConnected'[c] ]_vars

\* C34: a message without payload or without canvasId leaves the relay
\* serving: every connection stays open, and the objects list and the
\* membership of every room are what they were.
Shapeless(m) == m.object = Thrown \/ (m.ev \in DataReaders /\ m.canvasId = "")
C34_NoMessageIsFatal ==
  [][ Shapeless(last') =>
        /\ sockets' = sockets
        /\ rooms' = rooms /\ canvasUsers' = canvasUsers
        /\ canvasStates' = canvasStates ]_vars

\* C35: a room's objects list changes, and a message of a room reaches its
\* members, only through a message from a connection that is a member of
\* the room at that moment.
C35_OnlyMembersAlterRoom ==
  [][ \A r \in RoomIds :
        /\ canvasStates'[r] # canvasStates[r] => last'.from \in rooms[r]
        /\ (\E m \in out' : m.canvasId = r /\ m.to # last'.from)
              => last'.from \in rooms[r] ]_vars

\* C36: once tab 1 has applied every broadcast of the relay, in the relay's
\* order, its list is the relay's list.
C36_ClientListIsRelayList ==
  down[1] = <<>> => objectsRef[1] = canvasStates[CanvasId]

\* C37: while the echo flag of a tab is set, a timeout that clears it is
\* pending and due within ECHO_TIMEOUT; so the flag is false once
\* ECHO_TIMEOUT has passed since the last send and the last snapshot.
C37_FlagNeverStaysSet ==
  \A c \in Clients :
     /\ isLocalActionRef[c] => timers[c] # {}
     /\ \A t \in timers[c] : t <= ECHO_TIMEOUT
\* the timeout of an earlier send has run while the timeouts of two later
\* sends are pending: the sends overlap
C37_Witness ==
  /\ did.ev = "timeout" /\ did.to = 1
  /\ Cardinality(timers[1]) >= 2
  /\ Len(localActionHistory[1]) = 2

\* C38: an undo that comes right after an erase of the same tab, with no
\* other event of the tab in between, makes the list what it was before the
\* erase: the same objects in the same order.
C38_EraseUndoRestoresList ==
  [][ \A c \in Clients :
        ( /\ did.ev = "erase" /\ did.to = c
          /\ did'.ev = "undo" /\ did'.to = c )
        => objectsRef'[c] = base[c].restored.objects ]_vars

(* the cache specification: tab 1 mounts over an IndexedDB that holds what *)
(* an earlier visit saved, connects, loads the cache, receives the relay's *)
(* messages, draws, and saves its list                                     *)
CachedObject == Obj("d", "stroke", 1)
LoadCaches == { <<>>, <<CachedObject>> }

\* the effect on [canvasId, isConnected] runs after the render that follows
\* the connect: it returns unless connected and the ref unset, else it calls
\* loadFromStorage, whose await leaves the continuation for later
LoadStart(c) ==
  /\ did.ev = "connect" /\ did.to = c
  /\ isConnected[c]
  /\ ~hasLoadedFromStorageRef[c]
  /\ loadTask[c] = "idle"
  /\ loadTask' = [loadTask EXCEPT ![c] = "pending"]
  /\ did' = Did(c, "load-start", NoData)
  /\ sent' = <<>>
  /\ UNCHANGED <<rvars, objectsRef, localActionHistory, isLocalActionRef,
                 timers, isConnected, savedAsset, imageCache,
                 requestedAssetsRef, hasLoadedFromStorageRef, dbObjects>>

\* the continuation of loadFromStorage: storage.loadObjects has resolved
\* with the record of the canvas, and a non-empty result replaces an empty
\* list
LoadDone(c) ==
  /\ loadTask[c] = "pending"
  /\ loadTask' = [loadTask EXCEPT ![c] = "idle"]
  /\ did' = Did(c, "load-done", NoData)
  /\ sent' = <<>>
  /\ IF Len(dbObjects[c]) > 0 /\ Len(objectsRef[c]) = 0
       THEN /\ hasLoadedFromStorageRef' =
                 [hasLoadedFromStorageRef EXCEPT ![c] = TRUE]
            /\ objectsRef' = [objectsRef EXCEPT ![c] = dbObjects[c]]
       ELSE UNCHANGED <<hasLoadedFromStorageRef, objectsRef>>
  /\ UNCHANGED <<rvars, localActionHistory, isLocalActionRef, timers,
                 isConnected, savedAsset, imageCache, requestedAssetsRef,
                 dbObjects>>

\* the timeout of the effect on [objects, canvasId]:
\* storage.saveObjects(objects, canvasId) puts the list in the record
SaveObjects(c) ==
  /\ dbObjects[c] # objectsRef[c]
  /\ dbObjects' = [dbObjects EXCEPT ![c] = objectsRef[c]]
  /\ did' = Did(c, "save", NoData)
  /\ sent' = <<>>
  /\ UNCHANGED <<rvars, objectsRef, localActionHistory, isLocalActionRef,
                 timers, isConnected, savedAsset, imageCache,
                 requestedAssetsRef, hasLoadedFromStorageRef, loadTask>>

LoadDeliveries ==
  { Msg(1, "canvas-state", CanvasId, Null, o, NotArray, "", 0)
    : o \in { <<>>, <<PeerObject>> } }
  \cup { Msg(1, "object-added", CanvasId, PeerObject, <<>>, NotArray, "", 0),
         Msg(1, "canvas-cleared", CanvasId, Null, <<>>, NotArray, "", 0) }

InitLoad == InitRelay({}) /\ \E db \in LoadCaches : InitClientsWith(db)

NextLoad ==
  \/ Connect(1) /\ UNCHANGED <<xvars, applied, up, down, base>>
  \/ Drop(1) /\ UNCHANGED <<xvars, applied, up, down, base>>
  \/ LoadStart(1) /\ UNCHANGED <<yvars, uvars, applied, up, down, base>>
  \/ LoadDone(1) /\ UNCHANGED <<yvars, uvars, applied, up, down, base>>
  \/ SaveObjects(1) /\ UNCHANGED <<yvars, uvars, applied, up, down, base>>
  \/ /\ \E data \in LoadDeliveries :
           SnapshotFirst(1, data) /\ Receive(1, data)
     /\ UNCHANGED <<yvars, applied, up, down, base>>
  \/ TimerFires(1) /\ UNCHANGED <<xvars, applied, up, down, base>>
  \/ Tick(ECHO_TIMEOUT) /\ UNCHANGED <<xvars, applied, up, down, base>>
  \/ /\ \E id \in LocalIds \ InUse : CanPush(1) /\ DrawStroke(1, id)
     /\ UNCHANGED <<xvars, applied, up, down, base>>

SpecLoad == InitLoad /\ [][NextLoad]_vars

\* C39: a load from the cache that completes after a snapshot has been
\* applied (the snapshot has set hasLoadedFromStorageRef while the load was
\* pending) leaves the list as it is.
C39_LateLoadKeepsSnapshot ==
  [][ \A c \in Clients :
        ( /\ did'.ev = "load-done" /\ did'.to = c
          /\ hasLoadedFromStorageRef[c] )
        => objectsRef'[c] = objectsRef[c] ]_vars

====
